---- MODULE Spec2Model ----
(***************************************************************************)
(* Toyota Danish price-list extraction (extract_with_template.py): the     *)
(* variant id generator, the two-pass duplicate removal and the            *)
(* extract_from_pdf run of ToyotaDanishExtractor.                          *)
(*                                                                         *)
(* Python strings are modelled as sequences of one-character strings, so   *)
(* that lower(), replace(), `in` and the regular expressions of the code   *)
(* are computed on the characters. None is <<>> and a present optional     *)
(* value v is <<v>>.                                                       *)
(***************************************************************************)
EXTENDS Integers, Sequences, FiniteSets, TLC

VARIABLES
    gModel,      \* id harness: the model argument of generate_unique_variant_id
    gVariant,    \* id harness: the variant (trim label) argument
    calls,       \* id harness: the calls made so far, each with its returned id
    dItems,      \* dedup harness: the list handed to _remove_duplicates
    dOut,        \* dedup harness: its result (None before the call)
    dAgain,      \* dedup harness: the result of applying it to dOut (None before)
    template_config, \* extractor: self.config, the template configuration
    debug_info,  \* extractor: self.debug_info (None when debugging is off)
    current_page,\* extractor: self.current_page / self.current_page_text
    utcnow,      \* the clock datetime.utcnow() reads
    document,    \* the document under test, uploaded again and again
    runs,        \* the calls of extract_from_pdf so far: document and outcome
    fIn,         \* single-call harness: the argument a helper method is called with
    fOut,        \* single-call harness: what the call returned (None before it)
    max_size,    \* ImageCache: self.max_size
    ttl_seconds, \* ImageCache: self.ttl_seconds
    cache,       \* ImageCache: self.cache, the entries in OrderedDict order
    cache_lock,  \* ImageCache: self.lock, the thread inside `with self.lock`, 0 if none
    wall_clock,  \* the clock time.time() reads
    threads,     \* the caller threads: where each is in its call and what it got
    uses,        \* history: the keys in the order of their latest use, oldest first
    cache_calls  \* the number of calls the threads are still to make

idVars == <<gModel, gVariant, calls>>
dedupVars == <<dItems, dOut, dAgain>>
runVars == <<template_config, debug_info, current_page, utcnow, document, runs>>
fnVars == <<fIn, fOut>>
cacheVars == <<max_size, ttl_seconds, cache, cache_lock, wall_clock, threads, uses, cache_calls>>
vars == <<idVars, dedupVars, runVars, fnVars, cacheVars>>

(***************************************************************************)
(* Characters and Python string primitives                                 *)
(***************************************************************************)
None == <<>>
Some(v) == <<v>>

UpperChars == <<"A", "B", "C", "D", "E", "F", "G", "H", "I", "J", "K", "L", "M", "N", "O", "P", "Q", "R", "S", "T", "U", "V", "W", "X", "Y", "Z">>
LowerChars == <<"a", "b", "c", "d", "e", "f", "g", "h", "i", "j", "k", "l", "m", "n", "o", "p", "q", "r", "s", "t", "u", "v", "w", "x", "y", "z">>
DigitChars == <<"0", "1", "2", "3", "4", "5", "6", "7", "8", "9">>

Range(s) == {s[i] : i \in DOMAIN s}
UpperSet == Range(UpperChars)
LowerSet == Range(LowerChars)
DigitSet == Range(DigitChars)

IsDigit(c) == c \in DigitSet
SpaceSet == {" ", "\t", "\n"}
IsSpace(c) == c \in SpaceSet
IsAlpha(c) == c \in UpperSet \/ c \in LowerSet

LowerChar(c) ==
    IF c \in UpperSet THEN LowerChars[CHOOSE i \in DOMAIN UpperChars : UpperChars[i] = c] ELSE c
UpperChar(c) ==
    IF c \in LowerSet THEN UpperChars[CHOOSE i \in DOMAIN LowerChars : LowerChars[i] = c] ELSE c

\* str.lower()
Lower(s) == [i \in DOMAIN s |-> LowerChar(s[i])]

\* str.upper()
Upper(s) == [i \in DOMAIN s |-> UpperChar(s[i])]

\* s[i-1:] in Python terms: the suffix that starts at the 1-based index i
From(s, i) == SubSeq(s, i, Len(s))

\* pat occurs in s at the 1-based index i
OccursAt(s, pat, i) == i + Len(pat) - 1 <= Len(s) /\ SubSeq(s, i, i + Len(pat) - 1) = pat

\* pat in s
Contains(s, pat) == \E i \in 1..(Len(s) - Len(pat) + 1) : OccursAt(s, pat, i)

\* s.endswith(pat)
EndsWith(s, pat) == Len(pat) <= Len(s) /\ From(s, Len(s) - Len(pat) + 1) = pat

\* s.replace(old, new): left to right, non-overlapping (old is never empty here)
RECURSIVE Replace(_, _, _)
Replace(s, old, new) ==
    IF Len(s) < Len(old) THEN s
    ELSE IF OccursAt(s, old, 1) THEN new \o Replace(From(s, Len(old) + 1), old, new)
    ELSE <<s[1]>> \o Replace(Tail(s), old, new)

\* the end of the run of characters of the set cs that starts at index i:
\* the first index j >= i with j past the end or s[j] not in the run
RunEnd(s, i, cs) ==
    CHOOSE j \in i..(Len(s) + 1) :
        /\ (j = Len(s) + 1 \/ s[j] \notin cs)
        /\ \A k \in i..(j - 1) : s[k] \in cs

\* s.strip(chars) for a set of characters
StripSet(s, cs) ==
    IF \A i \in DOMAIN s : s[i] \in cs THEN <<>>
    ELSE LET a == CHOOSE i \in DOMAIN s : s[i] \notin cs /\ \A k \in 1..(i - 1) : s[k] \in cs
             b == CHOOSE i \in DOMAIN s : s[i] \notin cs /\ \A k \in (i + 1)..Len(s) : s[k] \in cs
         IN  SubSeq(s, a, b)

\* s.strip()
Strip(s) == StripSet(s, SpaceSet)

DigitVal(c) == (CHOOSE i \in DOMAIN DigitChars : DigitChars[i] = c) - 1

\* int(ds) for a non-empty sequence of digits
RECURSIVE IntOfDigits(_)
IntOfDigits(ds) ==
    IF ds = <<>> THEN 0 ELSE IntOfDigits(SubSeq(ds, 1, Len(ds) - 1)) * 10 + DigitVal(ds[Len(ds)])

\* str(n) for n >= 0
RECURSIVE StrOfInt(_)
StrOfInt(n) ==
    IF n < 10 THEN <<DigitChars[n + 1]>> ELSE StrOfInt(n \div 10) \o <<DigitChars[(n % 10) + 1]>>

\* A float with a short decimal expansion is the pair <<integer part, fraction
\* digits without trailing zeros>>; float(text) and str(float) as Python has them
\* for such values ("57.70" -> 57.7, "57" -> 57.0, printed "57.7" and "57.0")
RECURSIVE DropTrailingZeros(_)
DropTrailingZeros(ds) ==
    IF ds # <<>> /\ ds[Len(ds)] = "0" THEN DropTrailingZeros(SubSeq(ds, 1, Len(ds) - 1)) ELSE ds

FloatOf(text) ==
    LET j == RunEnd(text, 1, DigitSet)
    IN  <<IntOfDigits(SubSeq(text, 1, j - 1)), DropTrailingZeros(From(text, j + 1))>>

StrOfFloat(f) == StrOfInt(f[1]) \o <<".">> \o (IF f[2] = <<>> THEN <<"0">> ELSE f[2])

FloatIsZero(f) == f[1] = 0 /\ f[2] = <<>>

(***************************************************************************)
(* Unique variant id generation (module-level functions)                   *)
(***************************************************************************)

\* re.search(r'(\d+)\s*(?:hk|hp)', s, re.IGNORECASE) can match starting at i
PowerMatchAt(s, i) ==
    /\ IsDigit(s[i])
    /\ LET k == RunEnd(s, RunEnd(s, i, DigitSet), SpaceSet)
       IN  k + 1 <= Len(s) /\ Lower(SubSeq(s, k, k + 1)) \in {<<"h", "k">>, <<"h", "p">>}

extract_power_from_specification(engine_spec) ==
    IF engine_spec = <<>> THEN None
    ELSE IF \E i \in DOMAIN engine_spec : PowerMatchAt(engine_spec, i)
    THEN LET i == CHOOSE a \in DOMAIN engine_spec :
                      /\ PowerMatchAt(engine_spec, a)
                      /\ \A b \in 1..(a - 1) : ~PowerMatchAt(engine_spec, b)
         IN  Some(IntOfDigits(SubSeq(engine_spec, i, RunEnd(engine_spec, i, DigitSet) - 1)))
    ELSE None

\* the end (exclusive) of group 1 of r'(\d+[,.]?\d*)\s*kwh' matched from i
BatteryGroupEnd(s, i) ==
    LET j == RunEnd(s, i, DigitSet)
        j2 == IF j <= Len(s) /\ s[j] \in {",", "."} THEN j + 1 ELSE j
    IN  RunEnd(s, j2, DigitSet)

BatteryMatchAt(s, i) ==
    /\ IsDigit(s[i])
    /\ LET k == RunEnd(s, BatteryGroupEnd(s, i), SpaceSet)
       IN  k + 2 <= Len(s) /\ Lower(SubSeq(s, k, k + 2)) = <<"k", "w", "h">>

extract_battery_capacity(engine_spec) ==
    IF engine_spec = <<>> THEN None
    ELSE IF \E i \in DOMAIN engine_spec : BatteryMatchAt(engine_spec, i)
    THEN LET i == CHOOSE a \in DOMAIN engine_spec :
                      /\ BatteryMatchAt(engine_spec, a)
                      /\ \A b \in 1..(a - 1) : ~BatteryMatchAt(engine_spec, b)
             capacity_str == Replace(SubSeq(engine_spec, i, BatteryGroupEnd(engine_spec, i) - 1),
                                     <<",">>, <<".">>)
         IN  Some(FloatOf(capacity_str))
    ELSE None

normalize_drivetrain(engine_spec, drivetrain_field) ==
    IF drivetrain_field # None /\ drivetrain_field[1] # <<>> THEN Lower(drivetrain_field[1])
    ELSE IF engine_spec = <<>> THEN <<"f", "w", "d">>
    ELSE LET engine_lower == Lower(engine_spec)
         IN  IF Contains(engine_lower, <<"a", "w", "d">>) THEN <<"a", "w", "d">>
             ELSE IF Contains(engine_lower, <<"a", "u", "t", "o", "m", "a", "t", "g", "e", "a", "r">>) THEN <<"a", "u", "t", "o">>
             ELSE IF Contains(engine_lower, <<"b", "e", "n", "z", "i", "n">>) /\ ~Contains(engine_lower, <<"a", "u", "t", "o", "m", "a", "t", "g", "e", "a", "r">>)
                  THEN <<"m", "a", "n", "u", "a", "l">>
             ELSE IF Contains(engine_lower, <<"h", "y", "b", "r", "i", "d">>) THEN <<"h", "y", "b", "r", "i", "d">>
             ELSE IF Contains(engine_lower, <<"e", "l", "b", "i", "l">>) \/ Contains(engine_lower, <<"k", "w", "h">>)
                  THEN <<"e", "l", "e", "c", "t", "r", "i", "c">>
             ELSE <<"f", "w", "d">>

detect_gasoline_transmission(engine_spec) ==
    IF engine_spec = <<>> THEN None
    ELSE LET engine_lower == Lower(engine_spec)
         IN  IF Contains(engine_lower, <<"a", "u", "t", "o", "m", "a", "t", "g", "e", "a", "r">>) THEN Some(<<"a", "u", "t", "o">>)
             ELSE IF Contains(engine_lower, <<"b", "e", "n", "z", "i", "n">>) /\ ~Contains(engine_lower, <<"a", "u", "t", "o", "m", "a", "t", "g", "e", "a", "r">>)
                  THEN Some(<<"m", "a", "n", "u", "a", "l">>)
             ELSE None

categorize_powertrain(engine_spec) ==
    IF engine_spec = <<>> THEN <<"u", "n", "k", "n", "o", "w", "n">>
    ELSE LET engine_lower == Lower(engine_spec)
         IN  IF Contains(engine_lower, <<"k", "w", "h">>) \/ Contains(engine_lower, <<"e", "l", "b", "i", "l">>) THEN <<"e", "l", "e", "c", "t", "r", "i", "c">>
             ELSE IF Contains(engine_lower, <<"h", "y", "b", "r", "i", "d">>) THEN <<"h", "y", "b", "r", "i", "d">>
             ELSE IF Contains(engine_lower, <<"b", "e", "n", "z", "i", "n">>) THEN <<"g", "a", "s", "o", "l", "i", "n", "e">>
             ELSE <<"u", "n", "k", "n", "o", "w", "n">>

\* re.sub(r'_\d+\.?\d*', '', s)
RECURSIVE SubUnderscoreNumber(_)
SubUnderscoreNumber(s) ==
    IF s = <<>> THEN s
    ELSE IF s[1] = "_" /\ Len(s) >= 2 /\ IsDigit(s[2])
    THEN LET j == RunEnd(s, 2, DigitSet)
             j2 == IF j <= Len(s) /\ s[j] = "." THEN j + 1 ELSE j
         IN  SubUnderscoreNumber(From(s, RunEnd(s, j2, DigitSet)))
    ELSE <<s[1]>> \o SubUnderscoreNumber(Tail(s))

\* re.sub(r'_+', '_', s)
RECURSIVE SubUnderscoreRuns(_)
SubUnderscoreRuns(s) ==
    IF s = <<>> THEN s
    ELSE IF s[1] = "_" THEN <<"_">> \o SubUnderscoreRuns(From(s, RunEnd(s, 1, {"_"})))
    ELSE <<s[1]>> \o SubUnderscoreRuns(Tail(s))

\* the truth value Python gives an Optional[int] / Optional[float] in `if x:`
TruthyInt(x) == x # None /\ x[1] # 0
TruthyFloat(x) == x # None /\ ~FloatIsZero(x[1])

\* lines 1646-1648: the variant name already carries differentiating text
EnhancedVariantName(variant_clean) ==
    \/ EndsWith(variant_clean, <<"_", "a", "u", "t", "o">>)
    \/ EndsWith(variant_clean, <<"_", "m", "a", "n", "u", "a", "l">>)
    \/ Contains(variant_clean, <<"k", "w", "h">>)
    \/ Contains(variant_clean, <<"_", "a", "w", "d">>)
    \/ \E hp \in {<<"1", "1", "6">>, <<"1", "4", "0">>, <<"3", "4", "3">>} : Contains(variant_clean, <<"_">> \o hp \o <<"h", "p">>)

\* lines 1650-1666: the id of the early return
EnhancedVariantId(model_clean, variant, variant_clean, power_hp, drivetrain_code) ==
    LET stripped == Replace(Replace(Replace(variant_clean, <<"k", "w", "h">>, <<>>), <<"_", "a", "w", "d">>, <<>>), <<"h", "p">>, <<>>)
        id_variant == StripSet(SubUnderscoreRuns(SubUnderscoreNumber(stripped)), {"_"})
        base_id == model_clean \o <<"_">> \o id_variant
        with_power ==
            IF TruthyInt(power_hp) /\ ~\E hp \in {<<"1", "1", "6">>, <<"1", "4", "0">>, <<"3", "4", "3">>} : Contains(variant, hp)
            THEN base_id \o <<"_">> \o StrOfInt(power_hp[1]) \o <<"h", "p">>
            ELSE base_id
    IN  IF Contains(Lower(drivetrain_code), <<"a", "w", "d">>) /\ ~Contains(variant_clean, <<"_", "a", "w", "d">>)
        THEN with_power \o <<"_", "a", "w", "d">>
        ELSE with_power

\* lines 1677-1691
ElectricSuffix(base_id, power_hp, battery_kwh, drivetrain_code) ==
    LET with_battery ==
            IF TruthyFloat(battery_kwh)
            THEN base_id \o <<"_">> \o Replace(StrOfFloat(battery_kwh[1]), <<".">>, <<"_">>) \o <<"k", "w", "h">>
            ELSE base_id
        with_power ==
            IF TruthyInt(power_hp) THEN with_battery \o <<"_">> \o StrOfInt(power_hp[1]) \o <<"h", "p">>
            ELSE with_battery
        with_awd ==
            IF Contains(Lower(drivetrain_code), <<"a", "w", "d">>) THEN with_power \o <<"_", "a", "w", "d">> ELSE with_power
    IN  with_awd \o <<"_", "e", "l", "e", "c", "t", "r", "i", "c">>

\* lines 1693-1700
GasolineSuffix(base_id, engine_specification) ==
    LET transmission == detect_gasoline_transmission(engine_specification)
    IN  IF transmission # None /\ transmission[1] # <<>>
        THEN base_id \o <<"_">> \o transmission[1]
        ELSE base_id \o <<"_", "m", "a", "n", "u", "a", "l">>

\* lines 1702-1708
HybridSuffix(base_id, engine_specification, drivetrain_code) ==
    IF Contains(Lower(drivetrain_code), <<"a", "w", "d">>) THEN base_id \o <<"_", "a", "w", "d">>
    ELSE IF Contains(Lower(engine_specification), <<"a", "u", "t", "o", "m", "a", "t", "g", "e", "a", "r">>) THEN base_id \o <<"_", "a", "u", "t", "o">>
    ELSE base_id \o <<"_", "h", "y", "b", "r", "i", "d">>

\* lines 1710-1715
FallbackSuffix(base_id, drivetrain_code) ==
    IF Contains(Lower(drivetrain_code), <<"a", "w", "d">>) THEN base_id \o <<"_", "a", "w", "d">>
    ELSE IF drivetrain_code \in {<<"a", "u", "t", "o">>, <<"m", "a", "n", "u", "a", "l">>} THEN base_id \o <<"_">> \o drivetrain_code
    ELSE base_id

generate_unique_variant_id(model, variant, engine_specification, drivetrain) ==
    LET power_hp == extract_power_from_specification(engine_specification)
        battery_kwh == extract_battery_capacity(engine_specification)
        drivetrain_code == normalize_drivetrain(engine_specification, drivetrain)
        model_clean == Replace(Replace(Lower(model), <<" ">>, <<>>), <<"-">>, <<>>)
        variant_lower == Replace(Lower(variant), <<" ">>, <<"_">>)
        variant_clean == IF Contains(variant_lower, <<"e", "x", "e", "c", "u", "t", "i", "v", "e", "_", "p", "a", "n", "o", "r", "a", "m", "a">>)
                         THEN <<"e", "x", "e", "c", "u", "t", "i", "v", "e", "_", "p", "a", "n", "o", "r", "a", "m", "a">> ELSE variant_lower
        base_id == model_clean \o <<"_">> \o variant_clean
        with_power == IF TruthyInt(power_hp) THEN base_id \o <<"_">> \o StrOfInt(power_hp[1]) \o <<"h", "p">>
                      ELSE base_id
        powertrain_category == categorize_powertrain(engine_specification)
    IN  IF EnhancedVariantName(variant_clean)
        THEN EnhancedVariantId(model_clean, variant, variant_clean, power_hp, drivetrain_code)
        ELSE IF powertrain_category = <<"e", "l", "e", "c", "t", "r", "i", "c">>
        THEN ElectricSuffix(with_power, power_hp, battery_kwh, drivetrain_code)
        ELSE IF powertrain_category = <<"g", "a", "s", "o", "l", "i", "n", "e">>
        THEN GasolineSuffix(with_power, engine_specification)
        ELSE IF powertrain_category = <<"h", "y", "b", "r", "i", "d">>
        THEN HybridSuffix(with_power, engine_specification, drivetrain_code)
        ELSE FallbackSuffix(with_power, drivetrain_code)

(***************************************************************************)
(* ToyotaDanishExtractor._remove_duplicates                                *)
(***************************************************************************)
Has(item, field) == field \in DOMAIN item

\* item.get(field, default)
Get(item, field, default) == IF Has(item, field) THEN item[field] ELSE default

\* lines 1264-1277: the exact-tuple key. monthly_price is the one integer among
\* the match fields; the others are strings and are lower-cased and stripped.
KeyPart(item, field) ==
    IF Has(item, field)
    THEN IF field = "monthly_price" THEN StrOfInt(item[field]) ELSE Strip(Lower(item[field]))
    ELSE <<>>

match_fields == <<"model", "variant", "engine_specification", "monthly_price">>

DedupKey(item) == [k \in DOMAIN match_fields |-> KeyPart(item, match_fields[k])]

\* mutant of ExactTupleLoop: the duplicate is removed from the list being
\* iterated, so the item after it is stepped over and kept unexamined
RECURSIVE ExactTupleLoop_SkipsAfterRemoval(_, _, _, _)
ExactTupleLoop_SkipsAfterRemoval(items, i, seen, unique_items) ==
    IF i > Len(items) THEN unique_items
    ELSE LET key == DedupKey(items[i])
         IN  IF key \notin seen
             THEN ExactTupleLoop_SkipsAfterRemoval(items, i + 1, seen \cup {key},
                                                   Append(unique_items, items[i]))
             ELSE IF i + 1 <= Len(items)
             THEN ExactTupleLoop_SkipsAfterRemoval(items, i + 2, seen,
                                                   Append(unique_items, items[i + 1]))
             ELSE unique_items

\* lines 1259-1285: the first loop, from index i on
RECURSIVE ExactTupleLoop(_, _, _, _)
ExactTupleLoop(items, i, seen, unique_items) ==
    IF i > Len(items) THEN unique_items
    ELSE LET key == DedupKey(items[i])
         IN  IF key \notin seen
             THEN ExactTupleLoop(items, i + 1, seen \cup {key}, Append(unique_items, items[i]))
             ELSE ExactTupleLoop(items, i + 1, seen, unique_items)

\* lines 1289-1304: the second loop, from index i on
RECURSIVE UniqueIdLoop(_, _, _, _)
UniqueIdLoop(unique_items, i, seen_ids, final_items) ==
    IF i > Len(unique_items) THEN final_items
    ELSE LET item == unique_items[i]
             unique_id == Get(item, "id", <<>>)
         IN  IF unique_id # <<>> /\ unique_id \notin seen_ids
             THEN UniqueIdLoop(unique_items, i + 1, seen_ids \cup {unique_id},
                               Append(final_items, item))
             ELSE IF unique_id \in seen_ids
             THEN UniqueIdLoop(unique_items, i + 1, seen_ids, final_items)
             ELSE UniqueIdLoop(unique_items, i + 1, seen_ids, Append(final_items, item))

\* mutant of remove_duplicates: the id pass runs before the exact-tuple pass
remove_duplicates_IdPassFirst(items) ==
    ExactTupleLoop(UniqueIdLoop(items, 1, {}, <<>>), 1, {}, <<>>)

remove_duplicates(items) ==
    UniqueIdLoop(ExactTupleLoop(items, 1, {}, <<>>), 1, {}, <<>>)

(***************************************************************************)
(* ToyotaDanishExtractor: configuration                                    *)
(*                                                                         *)
(* The template configuration is a JSON document handed to __init__. The   *)
(* part the run reads is modelled as a record: the debugging switches (all *)
(* on, as /extract/template-debug sets them, or absent), the enrichment    *)
(* timestamp switch, and fixed post-processing and validation rules.       *)
(***************************************************************************)
Categories ==
    {"pages_processed", "tables_found", "text_extraction_samples", "pattern_matches",
     "extraction_stages"}

toyota_models ==
    {<<"A", "Y", "G", "O", " ", "X">>, <<"Y", "A", "R", "I", "S">>, <<"Y", "A", "R", "I", "S", " ", "C", "R", "O", "S", "S">>, <<"C", "O", "R", "O", "L", "L", "A", " ", "T", "O", "U", "R", "I", "N", "G", " ", "S", "P", "O", "R", "T", "S">>, <<"B", "Z", "4", "X">>, <<"U", "R", "B", "A", "N", " ", "C", "R", "U", "I", "S", "E", "R">>}

required_fields == <<"model", "variant", "monthly_price">>

price_validation ==
    [monthly_min |-> 500, monthly_max |-> 20000,
     first_payment_min |-> 0, first_payment_max |-> 100000]

Configs ==
    [debugging : BOOLEAN,                  \* debugging.* switches on
     add_extraction_timestamp : BOOLEAN,   \* post_processing.data_enrichment
     normalize_case : {"Title"}]           \* post_processing.variant_standardization

(***************************************************************************)
(* Pages as the page source and the configured patterns present them       *)
(*                                                                         *)
(* page.model    what _detect_model_on_page finds in the page text         *)
(* page.tables   the tables of the page; pricing is what _is_pricing_table *)
(*               answers, a row is what the column lookup and the cell     *)
(*               parsers read from it (None where they find nothing)       *)
(* page.lines    the non-empty text lines; priced is what                  *)
(*               _contains_price_pattern answers, parsed what              *)
(*               _parse_pricing_line returns for the line                  *)
(* page.fault    extract_text / extract_tables raises on this page         *)
(***************************************************************************)
Row(variant, monthly_price, first_payment, engine_specification) ==
    [variant |-> variant, monthly_price |-> monthly_price, first_payment |-> first_payment,
     engine_specification |-> engine_specification]

Line(variant, monthly_price, engine_specification, method, confidence) ==
    [priced |-> TRUE,
     parsed |-> Some([variant |-> variant, monthly_price |-> monthly_price,
                      engine_specification |-> engine_specification,
                      extraction_method |-> method, confidence |-> confidence])]

\* item | {field: value} for an optional value
WithOptional(item, field, value) == IF value = None THEN item ELSE (field :> value[1]) @@ item

\* the truth value of an Optional[str]
TruthyStr(x) == x # None /\ x[1] # <<>>

\* the k-th smallest index of the set I
NthOf(I, k) == CHOOSE i \in I : Cardinality({j \in I : j < i}) = k - 1

\* the elements of s at the indices in I, in their order in s
AtIndices(s, I) == [k \in 1..Cardinality(I) |-> s[NthOf(I, k)]]

\* self._log_debug(category, info) of call number run: the entry appended.
\* run is a history tag (which call of extract_from_pdf appended the entry).
LogEntry(run, category, msg, page) ==
    [run |-> run, category |-> category, msg |-> msg, page |-> page]

\* lines 302-345: the item built from a data row; row_idx counts from 0
RowItem(row, model, page_num, table_idx, row_idx) ==
    LET item == [model |-> model,
                 variant |-> row.variant[1],
                 monthly_price |-> row.monthly_price[1],
                 source |-> [page |-> page_num, table |-> table_idx, row |-> row_idx + 1,
                             extraction_method |-> "pricing_table"],
                 confidence |-> IF TruthyInt(row.first_payment) THEN 90 ELSE 80]
        with_payment ==
            IF TruthyInt(row.first_payment) THEN WithOptional(item, "first_payment", row.first_payment)
            ELSE item
    IN  IF TruthyStr(row.engine_specification)
        THEN WithOptional(with_payment, "engine_specification", row.engine_specification)
        ELSE with_payment

\* lines 267-354
extract_variants_from_pricing_table(run, table, model, page_num, table_idx) ==
    LET rows == table.rows
        kept == {i \in DOMAIN rows : TruthyStr(rows[i].variant) /\ TruthyInt(rows[i].monthly_price)}
        items == [k \in 1..Cardinality(kept) |->
                     RowItem(rows[NthOf(kept, k)], model, page_num, table_idx, NthOf(kept, k) - 1)]
    IN  [items |-> items,
         log |-> <<LogEntry(run, "extraction_stages", "Column mapping", page_num)>>
                 \o [k \in DOMAIN items |-> LogEntry(run, "pattern_matches", "row", page_num)]]

\* lines 424-469, 471-535, 537-577, 579-628: the item a parsed line becomes;
\* line_idx counts from 0
LineItem(parsed, model, page_num, line_idx) ==
    WithOptional(
        [model |-> model,
         variant |-> parsed.variant,
         monthly_price |-> parsed.monthly_price,
         source |-> [page |-> page_num, line |-> line_idx,
                     extraction_method |-> parsed.extraction_method],
         confidence |-> parsed.confidence],
        "engine_specification", parsed.engine_specification)

\* lines 356-382
extract_variants_from_text(run, lines, model, page_num) ==
    LET kept == {i \in DOMAIN lines : lines[i].priced /\ lines[i].parsed # None}
        items == [k \in 1..Cardinality(kept) |->
                     LineItem(lines[NthOf(kept, k)].parsed[1], model, page_num, NthOf(kept, k) - 1)]
        priced == {i \in DOMAIN lines : lines[i].priced}
    IN  [items |-> items,
         log |-> <<LogEntry(run, "extraction_stages", "Attempting text-based extraction", page_num)>>
                 \o [k \in 1..Cardinality(priced) |->
                        LogEntry(run, "pattern_matches", "Found potential pricing line", page_num)]
                 \o [k \in DOMAIN items |->
                        LogEntry(run, "extraction_stages", "Extracted variant from text", page_num)]]

\* lines 171-184: the loop over the tables of the page, from table t on
RECURSIVE TablesLoop(_, _, _, _, _, _)
TablesLoop(run, tables, t, model, page_num, acc) ==
    IF t > Len(tables) THEN acc
    ELSE IF Len(tables[t].rows) < 1 THEN TablesLoop(run, tables, t + 1, model, page_num, acc)
    ELSE IF tables[t].pricing
    THEN LET got == extract_variants_from_pricing_table(run, tables[t], model, page_num, t - 1)
         IN  TablesLoop(run, tables, t + 1, model, page_num,
                        [items |-> acc.items \o got.items,
                         log |-> acc.log
                                 \o <<LogEntry(run, "extraction_stages", "Found pricing table", page_num)>>
                                 \o got.log])
    ELSE TablesLoop(run, tables, t + 1, model, page_num, acc)

\* lines 186-190: the text strategy runs when the tables gave no item
TextFallback(run, page, page_num, from_tables) ==
    IF from_tables.items = <<>> /\ TruthyStr(page.model)
    THEN LET got == extract_variants_from_text(run, page.lines, page.model[1], page_num)
         IN  [items |-> from_tables.items \o got.items,
              log |-> from_tables.log
                      \o <<LogEntry(run, "extraction_stages", "No tables found, trying text-based extraction", page_num)>>
                      \o got.log]
    ELSE from_tables

\* lines 142-192, for a page that raises nothing
extract_models_from_page(run, config, page, page_num) ==
    IF ~TruthyStr(page.model)
    THEN [items |-> <<>>,
          log |-> <<LogEntry(run, "extraction_stages", "No Toyota model detected", page_num)>>]
    ELSE LET start == [items |-> <<>>,
                       log |-> <<LogEntry(run, "extraction_stages", "Detected model", page_num)>>
                               \o (IF config.debugging
                                   THEN <<LogEntry(run, "tables_found", "tables", page_num)>>
                                   ELSE <<>>)]
         IN  TextFallback(run, page, page_num,
                          TablesLoop(run, page.tables, 1, page.model[1], page_num, start))

(***************************************************************************)
(* ToyotaDanishExtractor: post-processing                                  *)
(***************************************************************************)
\* str.title(): the first letter of every run of letters in upper case, the
\* other letters in lower case
Title(s) ==
    [i \in DOMAIN s |->
        IF IsAlpha(s[i])
        THEN IF i = 1 \/ ~IsAlpha(s[i - 1]) THEN UpperChar(s[i]) ELSE LowerChar(s[i])
        ELSE s[i]]

\* s.rstrip of the characters of cs, what re.sub(r'[,\s]+$', '', s) leaves
RStripSet(s, cs) ==
    IF \A i \in DOMAIN s : s[i] \in cs THEN <<>>
    ELSE SubSeq(s, 1, CHOOSE i \in DOMAIN s : s[i] \notin cs /\ \A k \in (i + 1)..Len(s) : s[k] \in cs)

\* r'\s+\d+[.,]\d*\s*[Kk][Ww][Hh].*' can match starting at i
BatterySuffixAt(s, i) ==
    /\ s[i] \in SpaceSet
    /\ LET j == RunEnd(s, i, SpaceSet)
       IN  /\ j <= Len(s) /\ IsDigit(s[j])
           /\ LET k == RunEnd(s, j, DigitSet)
              IN  /\ k <= Len(s) /\ s[k] \in {".", ","}
                  /\ LET m == RunEnd(s, RunEnd(s, k + 1, DigitSet), SpaceSet)
                     IN  m + 2 <= Len(s) /\ Lower(SubSeq(s, m, m + 2)) = <<"k", "w", "h">>

\* r'\s+\d+\s*[Hh][Kk].*' can match starting at i
PowerSuffixAt(s, i) ==
    /\ s[i] \in SpaceSet
    /\ LET j == RunEnd(s, i, SpaceSet)
       IN  /\ j <= Len(s) /\ IsDigit(s[j])
           /\ LET m == RunEnd(s, RunEnd(s, j, DigitSet), SpaceSet)
              IN  m + 1 <= Len(s) /\ Lower(SubSeq(s, m, m + 1)) = <<"h", "k">>

\* re.sub(r'\s+\d+[.,]\d*\s*[Kk][Ww][Hh].*', '', s): the text is one line, so
\* the match runs to its end and the leftmost match start is where it is cut
SubBatterySuffix(s) ==
    IF \E i \in DOMAIN s : BatterySuffixAt(s, i)
    THEN SubSeq(s, 1, (CHOOSE i \in DOMAIN s :
                          BatterySuffixAt(s, i) /\ \A b \in 1..(i - 1) : ~BatterySuffixAt(s, b)) - 1)
    ELSE s

\* re.sub(r'\s+\d+\s*[Hh][Kk].*', '', s)
SubPowerSuffix(s) ==
    IF \E i \in DOMAIN s : PowerSuffixAt(s, i)
    THEN SubSeq(s, 1, (CHOOSE i \in DOMAIN s :
                          PowerSuffixAt(s, i) /\ \A b \in 1..(i - 1) : ~PowerSuffixAt(s, b)) - 1)
    ELSE s

\* the battery/power text left in the label
Bz4xTrimline_KeepsSuffix(original_variant) == Strip(original_variant)

\* lines 1078-1087
Bz4xTrimline(original_variant) ==
    Strip(RStripSet(Strip(SubPowerSuffix(Strip(SubBatterySuffix(original_variant)))),
                    SpaceSet \cup {","}))

\* the engine text left out of the variant in every family
FamilyVariant_TrimOnly(model, original_variant, engine_spec) ==
    IF model = <<"B", "Z", "4", "X">> THEN Bz4xTrimline(original_variant) ELSE original_variant

\* lines 1025-1106: the variant per model family
FamilyVariant(model, original_variant, engine_spec) ==
    IF model = <<"A", "Y", "G", "O", " ", "X">> THEN original_variant \o <<" ">> \o engine_spec
    ELSE IF model = <<"Y", "A", "R", "I", "S">> /\ ~Contains(Lower(model), <<"c", "r", "o", "s", "s">>)
    THEN Replace(Replace(original_variant, <<" ", "M", "a", "n", "u", "a", "l">>, <<>>), <<" ", "A", "u", "t", "o">>, <<>>) \o <<" ">> \o engine_spec
    ELSE IF model = <<"Y", "A", "R", "I", "S", " ", "C", "R", "O", "S", "S">>
    THEN LET trimline == Replace(Replace(original_variant, <<" ", "1", ".", "8", "L", " ", "1", "4", "0", "H", "p">>, <<>>), <<" ", "1", "4", "0", "h", "p">>, <<>>)
         IN  (IF Contains(Lower(trimline), <<"g", "r", " ", "s", "p", "o", "r", "t">>) THEN <<"G", "R", " ", "S", "p", "o", "r", "t">> ELSE trimline)
             \o <<" ">> \o engine_spec
    ELSE IF Contains(model, <<"C", "O", "R", "O", "L", "L", "A">>)
    THEN Replace(original_variant, <<" ", "A", "u", "t", "o">>, <<>>) \o <<" ">> \o engine_spec
    ELSE IF model = <<"B", "Z", "4", "X">> THEN Bz4xTrimline(original_variant)
    ELSE IF model = <<"U", "R", "B", "A", "N", " ", "C", "R", "U", "I", "S", "E", "R">>
    THEN Replace(Replace(original_variant, <<" ", "6", "1", ".", "1", "K", "w", "h">>, <<>>), <<" ", "6", "1", ".", "1", "k", "W", "h">>, <<>>) \o <<" ">> \o engine_spec
    ELSE original_variant

\* lines 1019-1124 (common_mappings is empty)
standardize_variant_name(config, item) ==
    LET family ==
            IF Has(item, "variant") /\ Has(item, "engine_specification") /\ Has(item, "model")
            THEN [item EXCEPT !["variant"] =
                     FamilyVariant(item["model"], item["variant"], item["engine_specification"])]
            ELSE item
    IN  IF Has(family, "variant") /\ config.normalize_case = "Title"
        THEN [family EXCEPT !["variant"] = Title(family["variant"])]
        ELSE family

\* lines 1234-1248: the enrichment timestamp is the clock reading
enrich_data(config, item, now) ==
    IF config.add_extraction_timestamp THEN ("extracted_at" :> now) @@ item ELSE item

\* lines 1828-1855
enhance_variant_with_unique_id(variant_data) ==
    LET model == Get(variant_data, "model", <<>>)
        variant == Get(variant_data, "variant", <<>>)
        engine_spec == Get(variant_data, "engine_specification", <<>>)
        drivetrain == IF Has(variant_data, "drivetrain") THEN Some(variant_data["drivetrain"]) ELSE None
        unique_id == generate_unique_variant_id(model, variant, engine_spec, drivetrain)
    IN  [id |-> unique_id,
         composite_key |-> model \o <<"_">> \o variant \o <<"_">> \o unique_id,
         power_hp |-> extract_power_from_specification(engine_spec),
         battery_capacity_kwh |-> IF categorize_powertrain(engine_spec) = <<"e", "l", "e", "c", "t", "r", "i", "c">>
                                  THEN extract_battery_capacity(engine_spec) ELSE None,
         drivetrain_type |-> normalize_drivetrain(engine_spec, drivetrain),
         powertrain_category |-> categorize_powertrain(engine_spec)] @@ variant_data

\* lines 970-992. _standardize_model_name and _normalize_prices change nothing
\* here: no model_standardization is configured and every candidate carries an
\* integer monthly_price.
post_process_items(config, items, now) ==
    remove_duplicates(
        [k \in DOMAIN items |->
            enhance_variant_with_unique_id(
                enrich_data(config, standardize_variant_name(config, items[k]), now))])

(***************************************************************************)
(* ToyotaDanishExtractor: validation                                       *)
(***************************************************************************)
\* an entry of the errors list: the message, the field it names and the value it quotes
ErrorEntry(msg, field, arg) == [msg |-> msg, field |-> field, arg |-> arg]

\* `not item[field]` for the required fields: an empty string or a zero price
Falsy(item, field) ==
    IF field = "monthly_price" THEN item[field] = 0 ELSE item[field] = <<>>

\* validation without the monthly price range
validate_item_NoPriceRange(item) ==
    LET missing == {k \in DOMAIN required_fields :
                       ~Has(item, required_fields[k]) \/ Falsy(item, required_fields[k])}
        missing_errors == [k \in 1..Cardinality(missing) |->
                              ErrorEntry("Missing required field",
                                         required_fields[NthOf(missing, k)], <<>>)]
        model_errors ==
            IF Get(item, "model", <<>>) \notin toyota_models
            THEN <<ErrorEntry("Model not in approved Toyota models", "model",
                         Get(item, "model", <<>>))>>
            ELSE <<>>
        errors == missing_errors \o model_errors
    IN  [valid |-> Len(errors) = 0, errors |-> errors]

\* lines 1310-1360 (no candidate carries total_cost here)
validate_item(item) ==
    LET missing == {k \in DOMAIN required_fields :
                       ~Has(item, required_fields[k]) \/ Falsy(item, required_fields[k])}
        missing_errors == [k \in 1..Cardinality(missing) |->
                              ErrorEntry("Missing required field",
                                         required_fields[NthOf(missing, k)], <<>>)]
        monthly_price == Get(item, "monthly_price", 0)
        monthly_errors ==
            IF ~(price_validation.monthly_min <= monthly_price
                     /\ monthly_price <= price_validation.monthly_max)
            THEN <<ErrorEntry("Monthly price outside valid range", "monthly_price",
                         StrOfInt(monthly_price))>>
            ELSE <<>>
        payment_errors ==
            IF Has(item, "first_payment")
                   /\ ~(price_validation.first_payment_min <= item["first_payment"]
                            /\ item["first_payment"] <= price_validation.first_payment_max)
            THEN <<ErrorEntry("First payment outside valid range", "first_payment",
                         StrOfInt(item["first_payment"]))>>
            ELSE <<>>
        model_errors ==
            IF Get(item, "model", <<>>) \notin toyota_models
            THEN <<ErrorEntry("Model not in approved Toyota models", "model",
                         Get(item, "model", <<>>))>>
            ELSE <<>>
        errors == missing_errors \o monthly_errors \o payment_errors \o model_errors
    IN  [valid |-> Len(errors) = 0, errors |-> errors]

(***************************************************************************)
(* ToyotaDanishExtractor.extract_from_pdf                                  *)
(***************************************************************************)
\* the page loop with the detected model carried to a page that names none
RECURSIVE PagesLoop_CarriesModel(_, _, _, _, _)
PagesLoop_CarriesModel(run, config, pages, n, acc) ==
    IF n > Len(pages) THEN acc
    ELSE IF pages[n].fault
         THEN [acc EXCEPT !.exc = TRUE]
         ELSE LET carried == IF pages[n].model = None /\ n > 1
                             THEN [pages[n] EXCEPT !.model = pages[n - 1].model]
                             ELSE pages[n]
                  got == extract_models_from_page(run, config, carried, n)
              IN  PagesLoop_CarriesModel(run, config, pages, n + 1,
                                         [exc |-> FALSE,
                                          items |-> acc.items \o got.items,
                                          log |-> acc.log \o got.log,
                                          context |-> Some(pages[n])])

\* lines 51-65: the loop over the pages from page n on. acc holds the items and
\* log entries so far and the last page whose text was read; a page that raises
\* ends the loop with exc set.
RECURSIVE PagesLoop(_, _, _, _, _)
PagesLoop(run, config, pages, n, acc) ==
    IF n > Len(pages) THEN acc
    ELSE LET entered == acc.log \o <<LogEntry(run, "pages_processed", "Processing page", n)>>
         IN  IF pages[n].fault
             THEN [acc EXCEPT !.exc = TRUE, !.log = entered]
             ELSE LET got == extract_models_from_page(run, config, pages[n], n)
                  IN  PagesLoop(run, config, pages, n + 1,
                                [exc |-> FALSE,
                                 items |-> acc.items \o got.items,
                                 log |-> entered \o got.log
                                         \o (IF config.debugging
                                             THEN <<LogEntry(run, "text_extraction_samples", "sample", n)>>
                                             ELSE <<>>),
                                 context |-> Some(pages[n])])

\* lines 41-65: the body of the try block up to the end of the page loop
TryPages(run, config, doc, context) ==
    IF ~doc.readable
    THEN [exc |-> TRUE, items |-> <<>>, log |-> <<>>, context |-> context]
    ELSE LET started == <<LogEntry(run, "extraction_stages", "Starting extraction", Len(doc.pages))>>
         IN  IF doc.pages # <<>> /\ doc.pages[1].fault
             THEN [exc |-> TRUE, items |-> <<>>, log |-> started, context |-> context]
             ELSE PagesLoop(run, config, doc.pages, 1,
                            [exc |-> FALSE, items |-> <<>>, log |-> started, context |-> context])

\* lines 73-77: a valid item is appended to validated_items, the errors of an
\* invalid one to errors
ValidationStep(acc, item, validation_result) ==
    IF validation_result.valid
    THEN [acc EXCEPT !.validated_items = Append(@, item)]
    ELSE [acc EXCEPT !.errors = @ \o validation_result.errors]

\* lines 70-77: the validation loop over the post-processed items, from item k on
RECURSIVE ValidationLoop(_, _, _)
ValidationLoop(items, k, acc) ==
    IF k > Len(items) THEN acc
    ELSE ValidationLoop(items, k + 1, ValidationStep(acc, items[k], validate_item(items[k])))

\* lines 79-95: the result of a run whose pages raised nothing; checked is what
\* the validation loop left
SuccessResult(run, doc, body, items, checked, now) ==
    [raised |-> FALSE,
     processed |-> items,
     log |-> body.log \o <<LogEntry(run, "extraction_stages", "Validation complete", Len(doc.pages))>>,
     result |-> [success |-> TRUE,
                 items |-> checked.validated_items,
                 metadata |-> [pages_processed |-> Len(doc.pages),
                               raw_items_found |-> Len(items),
                               validated_items |-> Len(checked.validated_items),
                               extraction_timestamp |-> now],
                 errors |-> checked.errors]]

\* lines 67-95: post-processing, validation and the result
PostProcessAndValidate(run, doc, body, items, now) ==
    SuccessResult(run, doc, body, items,
                  ValidationLoop(items, 1, [validated_items |-> <<>>, errors |-> <<>>]), now)

\* the except clause returning what the pages before the failure gave
ExceptionResult_PartialItems(run, doc, body) ==
    [raised |-> FALSE,
     processed |-> <<>>,
     log |-> body.log \o <<LogEntry(run, "extraction_stages", "ERROR", 0),
                           LogEntry(run, "extraction_stages", "TRACEBACK", 0)>>,
     result |-> [success |-> FALSE,
                 items |-> body.items,
                 metadata |-> [error_type |-> "Exception"],
                 errors |-> <<ErrorEntry("Extraction failed", "", <<>>),
                              ErrorEntry("Traceback", "", <<>>)>>]]

\* lines 97-111: the except clause
ExceptionResult(run, doc, body) ==
    [raised |-> FALSE,
     processed |-> <<>>,
     log |-> body.log \o <<LogEntry(run, "extraction_stages", "ERROR", 0),
                           LogEntry(run, "extraction_stages", "TRACEBACK", 0)>>,
     result |-> [success |-> FALSE,
                 items |-> <<>>,
                 metadata |-> [error_type |-> "Exception"],
                 errors |-> <<ErrorEntry("Extraction failed", "", <<>>),
                              ErrorEntry("Traceback", "", <<>>)>>]]

\* self._log_debug for one entry: lines 1362-1365
log_debug(info, entry) ==
    IF info # None /\ entry.category \in DOMAIN info[1]
    THEN Some([info[1] EXCEPT ![entry.category] = Append(@, entry)])
    ELSE info

\* the _log_debug calls of a run, in order
RECURSIVE LogAll(_, _, _)
LogAll(info, entries, k) ==
    IF k > Len(entries) THEN info
    ELSE LogAll(log_debug(info, entries[k]), entries, k + 1)

\* lines 81-95 and 105-111: the result object, whose debug_info is the
\* extractor's own dictionary
ExtractionResult(outcome, info_after, context) ==
    [raised |-> outcome.raised,
     processed |-> outcome.processed,
     result |-> [debug_info |-> info_after] @@ outcome.result,
     debug_info |-> info_after,
     context |-> context]

\* the return statement of line 81 with the debug_info the run's log calls left
Returned(info, context, outcome) ==
    ExtractionResult(outcome, LogAll(info, outcome.log, 1), context)

\* lines 41-111 once the page loop has ended with body
AfterPages(run, config, doc, info, now, body) ==
    IF body.exc
    THEN Returned(info, body.context, ExceptionResult(run, doc, body))
    ELSE Returned(info, body.context,
                  PostProcessAndValidate(run, doc, body,
                                         post_process_items(config, body.items, now), now))

\* lines 36-111: the outcome of one call, the debug_info it leaves and the page
\* context it leaves
extract_from_pdf(run, config, doc, info, context, now) ==
    AfterPages(run, config, doc, info, now, TryPages(run, config, doc, context))

\* lines 20-34: the debug_info a new extractor starts with
NewDebugInfo(config) ==
    IF config.debugging THEN Some([c \in Categories |-> <<>>]) ELSE None

(***************************************************************************)
(* ToyotaDanishExtractor: tables of cells                                  *)
(*                                                                         *)
(* A table is a sequence of rows, a row a sequence of cells, a cell a      *)
(* string; an empty cell (None or "") is <<>>. Column indices count from 0 *)
(* as in the code, -1 meaning no column.                                   *)
(***************************************************************************)
\* extraction_rules.price_patterns: one pattern, (\d{1,3})[.,](\d{3}), of format
\* danish_thousands, with the range of values it accepts
price_pattern == [min_value |-> 500, max_value |-> 999999]

\* extraction_rules.pricing_table_detection.header_keywords
header_keywords == <<<<"y", "d", "e", "l", "s", "e">>, <<"p", "r", "i", "s">>, <<"m", "o", "n", "t", "h", "l", "y">>>>

\* the keyword lists of lines 278-280
variant_keywords == <<<<"v", "a", "r", "i", "a", "n", "t">>, <<"m", "o", "d", "e", "l">>, <<"t", "y", "p", "e">>>>
monthly_keywords == <<<<"y", "d", "e", "l", "s", "e">>, <<"m", "o", "n", "t", "h", "l", "y">>, <<"m", "d">>, <<"m", "å", "n", "e", "d", "l", "i", "g">>>>
first_payment_keywords == <<<<"f", "ø", "r", "s", "t", "e", "g", "a", "n", "g", "s">>, <<"f", "i", "r", "s", "t">>, <<"u", "d", "b", "e", "t", "a", "l", "i", "n", "g">>>>

\* line 795
variant_words == <<<<"a", "c", "t", "i", "v", "e">>, <<"s", "t", "y", "l", "e">>, <<"c", "o", "m", "f", "o", "r", "t">>, <<"e", "x", "e", "c", "u", "t", "i", "v", "e">>, <<"p", "r", "e", "m", "i", "u", "m">>, <<"h", "y", "b", "r", "i", "d">>, <<"e", "l", "e", "c", "t", "r", "i", "c">>>>

SeparatorSet == {".", ","}

\* a match of (\d{1,3})[.,](\d{3}) that starts at position p of text
PriceMatchAt(text, p) ==
    /\ p \in DOMAIN text
    /\ IsDigit(text[p])
    /\ LET e == RunEnd(text, p, DigitSet)
       IN  /\ e - p <= 3
           /\ e + 3 <= Len(text)
           /\ text[e] \in SeparatorSet
           /\ \A k \in 1..3 : IsDigit(text[e + k])

\* the match read in the simple format: int(match.group(1)), the digits before
\* the separator
PriceValueAt_SimpleFormat(text, p) ==
    IntOfDigits(SubSeq(text, p, RunEnd(text, p, DigitSet) - 1))

\* the value of the match at p: int(thousands) * 1000 + int(hundreds)
PriceValueAt(text, p) ==
    LET e == RunEnd(text, p, DigitSet)
    IN  IntOfDigits(SubSeq(text, p, e - 1)) * 1000 + IntOfDigits(SubSeq(text, e + 1, e + 3))

\* the position after the match at p
PriceMatchEnd(text, p) == RunEnd(text, p, DigitSet) + 4

\* re.finditer for the price pattern from position i on: the start of the
\* leftmost match at or after i, 0 if there is none
NextPriceMatch(text, i) ==
    IF \E p \in i..Len(text) : PriceMatchAt(text, p)
    THEN CHOOSE p \in i..Len(text) :
             PriceMatchAt(text, p) /\ \A q \in i..(p - 1) : ~PriceMatchAt(text, q)
    ELSE 0

\* lines 258-265
contains_price_pattern(text) == NextPriceMatch(text, 1) # 0

\* the first match decides: no later match is tried when it is out of range
PriceFrom_FirstMatchOnly(text, i) ==
    IF NextPriceMatch(text, i) = 0 THEN None
    ELSE IF /\ price_pattern.min_value <= PriceValueAt(text, NextPriceMatch(text, i))
            /\ PriceValueAt(text, NextPriceMatch(text, i)) <= price_pattern.max_value
         THEN Some(PriceValueAt(text, NextPriceMatch(text, i)))
         ELSE None

\* lines 825-846: the matches in order from position i, the first whose value
\* is in range wins
RECURSIVE PriceFrom(_, _)
PriceFrom(text, i) ==
    IF NextPriceMatch(text, i) = 0 THEN None
    ELSE IF /\ price_pattern.min_value <= PriceValueAt(text, NextPriceMatch(text, i))
            /\ PriceValueAt(text, NextPriceMatch(text, i)) <= price_pattern.max_value
         THEN Some(PriceValueAt(text, NextPriceMatch(text, i)))
         ELSE PriceFrom(text, PriceMatchEnd(text, NextPriceMatch(text, i)))

\* lines 819-848
parse_danish_price(text) == PriceFrom(text, 1)

\* `keyword.lower() in text` for some keyword of the list
AnyKeywordIn(keywords, text) ==
    \E k \in DOMAIN keywords : Contains(text, Lower(keywords[k]))

\* lines 746-755
find_column_index(headers, keywords) ==
    IF \E i \in DOMAIN headers : headers[i] # <<>> /\ AnyKeywordIn(keywords, Lower(headers[i]))
    THEN (CHOOSE i \in DOMAIN headers :
              /\ headers[i] # <<>> /\ AnyKeywordIn(keywords, Lower(headers[i]))
              /\ \A j \in 1..(i - 1) :
                     ~(headers[j] # <<>> /\ AnyKeywordIn(keywords, Lower(headers[j])))) - 1
    ELSE -1

\* lines 783-797 (no common_variants are configured)
looks_like_variant(text) ==
    /\ Len(text) >= 2
    /\ Len(text) <= 50
    /\ AnyKeywordIn(variant_words, Lower(text))

\* str.isdigit()
IsDigits(text) == text # <<>> /\ \A i \in DOMAIN text : IsDigit(text[i])

\* lines 773-781: the first other cell that looks like a variant
OtherVariantCell(row, variant_col) ==
    LET found == {i \in DOMAIN row :
                     row[i] # <<>> /\ i - 1 # variant_col /\ looks_like_variant(Strip(row[i]))}
    IN  IF found = {} THEN None ELSE Some(Strip(row[NthOf(found, 1)]))

\* lines 757-781 (no variant_patterns are configured)
extract_variant_name(row, variant_col) ==
    IF /\ variant_col >= 0
       /\ variant_col < Len(row)
       /\ row[variant_col + 1] # <<>>
       /\ Len(Strip(row[variant_col + 1])) >= 2
       /\ ~IsDigits(Strip(row[variant_col + 1]))
    THEN Some(Strip(row[variant_col + 1]))
    ELSE OtherVariantCell(row, variant_col)

\* lines 810-817: the first cell of the row that parses as a price
FirstPriceInRow(row) ==
    LET found == {i \in DOMAIN row : row[i] # <<>> /\ parse_danish_price(row[i]) # None}
    IN  IF found = {} THEN None ELSE parse_danish_price(row[NthOf(found, 1)])

\* lines 799-817
extract_danish_price(row, col_idx) ==
    IF col_idx < 0 THEN None
    ELSE IF /\ col_idx < Len(row)
            /\ row[col_idx + 1] # <<>>
            /\ parse_danish_price(row[col_idx + 1]) # None
         THEN parse_danish_price(row[col_idx + 1])
         ELSE FirstPriceInRow(row)

\* " ".join(str(cell or "") for cell in cells)
RECURSIVE JoinCells(_)
JoinCells(cells) ==
    IF cells = <<>> THEN <<>>
    ELSE IF Len(cells) = 1 THEN cells[1]
    ELSE cells[1] \o <<" ">> \o JoinCells(Tail(cells))

\* line 247
KeywordFound(table) == AnyKeywordIn(header_keywords, Lower(JoinCells(table[1])))

\* lines 250-254: a price pattern in a cell of table[1:3]
PriceFound(table) ==
    \E r \in 2..3 :
        r <= Len(table) /\ \E c \in DOMAIN table[r] : contains_price_pattern(table[r][c])

\* classification by either condition alone
is_pricing_table_EitherCondition(table) ==
    IF Len(table) < 2 THEN FALSE
    ELSE IF table[1] = <<>> THEN FALSE
    ELSE KeywordFound(table) \/ PriceFound(table)

\* lines 231-256
is_pricing_table(table) ==
    IF Len(table) < 2 THEN FALSE
    ELSE IF table[1] = <<>> THEN FALSE
    ELSE KeywordFound(table) /\ PriceFound(table)

\* lines 910-952 (no engine_patterns are configured)
extract_engine_specification(row) == None

\* lines 288-343: what the row loop reads from data row r of the table
ReadRow(table, r) ==
    Row(extract_variant_name(table[r], find_column_index(table[1], variant_keywords)),
        extract_danish_price(table[r], find_column_index(table[1], monthly_keywords)),
        extract_danish_price(table[r], find_column_index(table[1], first_payment_keywords)),
        extract_engine_specification(table[r]))

\* lines 172-184 and 274-300: the table as the table loop sees it: whether it
\* is a pricing table, and what each data row gives
ReadTable(table) ==
    [pricing |-> is_pricing_table(table),
     rows |-> [r \in 1..(Len(table) - 1) |-> ReadRow(table, r + 1)]]

(***************************************************************************)
(* ToyotaDanishExtractor._detect_model_on_page                             *)
(***************************************************************************)
\* the generic names tested before the names that contain them
model_patterns_GenericFirst ==
    <<[header |-> FALSE, name |-> <<"C", "O", "R", "O", "L", "L", "A">>],
      [header |-> FALSE, name |-> <<"Y", "A", "R", "I", "S">>],
      [header |-> FALSE, name |-> <<"Y", "A", "R", "I", "S", " ", "C", "R", "O", "S", "S">>],
      [header |-> FALSE, name |-> <<"C", "O", "R", "O", "L", "L", "A", " ", "T", "O", "U", "R", "I", "N", "G", " ", "S", "P", "O", "R", "T", "S">>],
      [header |-> FALSE, name |-> <<"U", "R", "B", "A", "N", " ", "C", "R", "U", "I", "S", "E", "R">>],
      [header |-> FALSE, name |-> <<"A", "Y", "G", "O", " ", "X">>],
      [header |-> FALSE, name |-> <<"B", "Z", "4", "X">>]>>

\* lines 197-212: the patterns in priority order; header marks the patterns
\* that end in \s+SE UDSTYRSVARIANTER
model_patterns ==
    <<[header |-> TRUE, name |-> <<"Y", "A", "R", "I", "S", " ", "C", "R", "O", "S", "S">>],
      [header |-> TRUE, name |-> <<"C", "O", "R", "O", "L", "L", "A", " ", "T", "O", "U", "R", "I", "N", "G", " ", "S", "P", "O", "R", "T", "S">>],
      [header |-> TRUE, name |-> <<"U", "R", "B", "A", "N", " ", "C", "R", "U", "I", "S", "E", "R">>],
      [header |-> TRUE, name |-> <<"A", "Y", "G", "O", " ", "X">>],
      [header |-> TRUE, name |-> <<"B", "Z", "4", "X">>],
      [header |-> TRUE, name |-> <<"Y", "A", "R", "I", "S">>],
      [header |-> FALSE, name |-> <<"Y", "A", "R", "I", "S", " ", "C", "R", "O", "S", "S">>],
      [header |-> FALSE, name |-> <<"C", "O", "R", "O", "L", "L", "A", " ", "T", "O", "U", "R", "I", "N", "G", " ", "S", "P", "O", "R", "T", "S">>],
      [header |-> FALSE, name |-> <<"U", "R", "B", "A", "N", " ", "C", "R", "U", "I", "S", "E", "R">>],
      [header |-> FALSE, name |-> <<"A", "Y", "G", "O", " ", "X">>],
      [header |-> FALSE, name |-> <<"B", "Z", "4", "X">>],
      [header |-> FALSE, name |-> <<"C", "O", "R", "O", "L", "L", "A">>],
      [header |-> FALSE, name |-> <<"Y", "A", "R", "I", "S">>]>>

\* re.search(pattern, text, re.IGNORECASE) for one of the patterns, on the text
\* in upper case: the name, and for a header pattern one or more blanks and
\* SE UDSTYRSVARIANTER after it
ModelPatternMatches(pattern, upper) ==
    \E p \in DOMAIN upper :
        /\ OccursAt(upper, pattern.name, p)
        /\ pattern.header =>
               /\ RunEnd(upper, p + Len(pattern.name), SpaceSet) > p + Len(pattern.name)
               /\ OccursAt(upper, <<"S", "E", " ", "U", "D", "S", "T", "Y", "R", "S", "V", "A", "R", "I", "A", "N", "T", "E", "R">>,
                           RunEnd(upper, p + Len(pattern.name), SpaceSet))

\* lines 215-219: the indices of the patterns that match
MatchingPatterns(patterns, upper) ==
    {k \in DOMAIN patterns : ModelPatternMatches(patterns[k], upper)}

\* lines 221-227: the configured model names found in the text
LegacyModels(upper) == {m \in toyota_models : Contains(upper, Upper(m))}

\* lines 215-229 given the patterns that match: the first of them wins. Every
\* configured model name is also the name of a pattern, so the legacy loop
\* finds nothing the patterns have not found.
DetectedModel(patterns, matching, legacy) ==
    IF matching # {} THEN Some(patterns[NthOf(matching, 1)].name)
    ELSE IF legacy # {} THEN Some(CHOOSE m \in legacy : TRUE)
    ELSE None

\* lines 194-229
detect_model_on_page(text) ==
    DetectedModel(model_patterns, MatchingPatterns(model_patterns, Upper(text)),
                  LegacyModels(Upper(text)))

(***************************************************************************)
(* ToyotaDanishExtractor: pricing lines                                    *)
(***************************************************************************)
\* str.split(): the spans [a, b] of the blank-separated parts of s from index i on
RECURSIVE PartSpans(_, _)
PartSpans(s, i) ==
    IF RunEnd(s, i, SpaceSet) > Len(s) THEN <<>>
    ELSE <<[a |-> RunEnd(s, i, SpaceSet),
            b |-> RunEnd(s, RunEnd(s, i, SpaceSet), {s[k] : k \in DOMAIN s} \ SpaceSet) - 1]>>
             \o PartSpans(s, RunEnd(s, RunEnd(s, i, SpaceSet), {s[k] : k \in DOMAIN s} \ SpaceSet))

\* the parts themselves
Parts(s, spans) == [k \in DOMAIN spans |-> SubSeq(s, spans[k].a, spans[k].b)]

\* the character classes of the line patterns
LetterSet == UpperSet \cup LowerSet
Digits(lo, hi) == [cs |-> DigitSet, lo |-> lo, hi |-> hi]
Dot == [cs |-> {"."}, lo |-> 1, hi |-> 1]
Slash == [cs |-> {"/"}, lo |-> 1, hi |-> 1]
Unbounded == 1000

\* the field groups of the patterns of lines 398, 404 and 410
Thousands(lo, hi) == <<Digits(lo, hi), Dot, Digits(3, 3)>>
FuelEconomy ==
    <<[cs |-> DigitSet \cup {","}, lo |-> 1, hi |-> Unbounded], Slash, Digits(1, Unbounded)>>
BatteryInfo == <<[cs |-> DigitSet \cup {",", "/", "-"}, lo |-> 1, hi |-> Unbounded]>>

\* a whole part matches a group: each element of the group takes the run of
\* its characters at its place (consecutive elements share no character)
RECURSIVE GroupMatches(_, _, _)
GroupMatches(part, i, group) ==
    IF group = <<>> THEN i = Len(part) + 1
    ELSE /\ RunEnd(part, i, group[1].cs) - i >= group[1].lo
         /\ RunEnd(part, i, group[1].cs) - i <= group[1].hi
         /\ GroupMatches(part, RunEnd(part, i, group[1].cs), Tail(group))

\* groups 2.. of pattern1 (line 398), pattern2 (line 404) and pattern3 (line 410)
line_patterns ==
    [standard_format |->
         <<Thousands(1, 1), Thousands(1, 1), Thousands(2, 2), Thousands(2, 3), FuelEconomy,
           Thousands(2, 2), <<Digits(3, 4)>>>>,
     electric_format |->
         <<Thousands(1, 1), Thousands(1, 1), Thousands(2, 2), Thousands(2, 3), <<Digits(3, 3)>>,
           <<Digits(3, 3)>>, BatteryInfo, Thousands(2, 2), <<Digits(3, 4)>>>>,
     compact_format |->
         <<Thousands(1, 1), <<Digits(1, Unbounded)>>, Thousands(2, 2), Thousands(2, 3), FuelEconomy,
           Thousands(2, 2), <<Digits(3, 4)>>>>]

\* re.match of a pattern ^([A-Za-z\s]+?)\s+(...)\s+ ... (...)$ on the stripped
\* line: its last parts match the field groups and the parts before them, at
\* least one, are letters
PatternMatches(parts, groups) ==
    /\ Len(parts) > Len(groups)
    /\ \A k \in 1..(Len(parts) - Len(groups)) :
           parts[k] # <<>> /\ \A c \in DOMAIN parts[k] : parts[k][c] \in LetterSet
    /\ \A g \in DOMAIN groups :
           GroupMatches(parts[Len(parts) - Len(groups) + g], 1, groups[g])

\* match.group(1).strip(): the line up to the last part before the fields
VariantGroup(line, spans, groups) == SubSeq(line, 1, spans[Len(spans) - Len(groups)].b)

\* int(match.group(2).replace('.', ''))
MonthlyGroup(parts, groups) ==
    IntOfDigits(Replace(parts[Len(parts) - Len(groups) + 1], <<".">>, <<>>))

\* lines 424-469, 471-535, 537-577: the candidate of a specific pattern; engine
\* is the engine text that the page context or the figures of the line give
SpecificCandidate(line, spans, method, engine, confidence) ==
    Some([variant |-> VariantGroup(line, spans, line_patterns[method]),
          monthly_price |-> MonthlyGroup(Parts(line, spans), line_patterns[method]),
          engine_specification |-> Some(engine),
          extraction_method |-> method,
          confidence |-> confidence])

\* lines 590-594: the parts without a digit, and the parts with one
HasDigit(part) == \E c \in DOMAIN part : IsDigit(part[c])
VariantParts(parts) == SelectSeq(parts, LAMBDA p : ~HasDigit(p))
NumericParts(parts) == SelectSeq(parts, HasDigit)

\* lines 603-609: the first numeric part that parses to a price in 1500..15000
FirstMonthlyPrice(numeric_parts) ==
    LET ok == {k \in DOMAIN numeric_parts :
                  /\ parse_danish_price(numeric_parts[k]) # None
                  /\ parse_danish_price(numeric_parts[k])[1] >= 1500
                  /\ parse_danish_price(numeric_parts[k])[1] <= 15000}
    IN  IF ok = {} THEN None ELSE parse_danish_price(numeric_parts[NthOf(ok, 1)])

\* lines 579-628
parse_flexible_format(parts) ==
    IF Len(parts) < 3 THEN None
    ELSE IF Len(JoinCells(VariantParts(parts))) < 2 THEN None
    ELSE IF ~looks_like_variant(JoinCells(VariantParts(parts))) THEN None
    ELSE IF FirstMonthlyPrice(NumericParts(parts)) = None THEN None
    ELSE Some([variant |-> JoinCells(VariantParts(parts)),
               monthly_price |-> FirstMonthlyPrice(NumericParts(parts))[1],
               engine_specification |-> None,
               extraction_method |-> "flexible_format",
               confidence |-> 60])

\* the catch-all parser tried before the specific patterns
ParseParts_CatchAllFirst(line, spans, parts, engine) ==
    IF parse_flexible_format(parts) # None THEN parse_flexible_format(parts)
    ELSE IF PatternMatches(parts, line_patterns.standard_format)
    THEN SpecificCandidate(line, spans, "standard_format", engine, 90)
    ELSE IF PatternMatches(parts, line_patterns.electric_format)
    THEN SpecificCandidate(line, spans, "electric_format", engine, 90)
    ELSE IF PatternMatches(parts, line_patterns.compact_format)
    THEN SpecificCandidate(line, spans, "compact_format", engine, 80)
    ELSE None

\* lines 394-417 on the stripped line and its parts
ParseParts(line, spans, parts, engine) ==
    IF PatternMatches(parts, line_patterns.standard_format)
    THEN SpecificCandidate(line, spans, "standard_format", engine, 90)
    ELSE IF PatternMatches(parts, line_patterns.electric_format)
    THEN SpecificCandidate(line, spans, "electric_format", engine, 90)
    ELSE IF PatternMatches(parts, line_patterns.compact_format)
    THEN SpecificCandidate(line, spans, "compact_format", engine, 80)
    ELSE parse_flexible_format(parts)

\* lines 384-422
StrippedLine(line, spans, engine) == ParseParts(line, spans, Parts(line, spans), engine)
parse_pricing_line(line, engine) ==
    IF Strip(line) = <<>> THEN None
    ELSE StrippedLine(Strip(line), PartSpans(Strip(line), 1), engine)

(***************************************************************************)
(* Inputs of the id generator                                              *)
(***************************************************************************)
Models == {<<"B", "Z", "4", "X">>, <<"A", "Y", "G", "O", " ", "X">>}

\* trim labels, among them labels that already carry battery/power text,
\* a transmission word or a drivetrain word
TrimLabels ==
    {<<"A", "c", "t", "i", "v", "e">>, <<"E", "x", "e", "c", "u", "t", "i", "v", "e", " ", "P", "a", "n", "o", "r", "a", "m", "a">>, <<"A", "c", "t", "i", "v", "e", " ", "5", "7", ".", "7", " ", "K", "w", "h", ",", " ", "1", "6", "7", " ", "H", "k">>, <<"A", "c", "t", "i", "v", "e", " ", "A", "u", "t", "o">>, <<"E", "x", "e", "c", "u", "t", "i", "v", "e", " ", "A", "W", "D">>}

Batteries == {<<"5", "7", ".", "7">>, <<"7", "3", ".", "1">>}
Powers == {<<"1", "6", "7">>, <<"3", "4", "3">>}

\* "<battery> kWh, <power> hk" with " AWD" appended for all-wheel drive
ElectricText(battery, power, awd) ==
    battery \o <<" ", "k", "W", "h", ",", " ">> \o power \o <<" ", "h", "k">> \o (IF awd THEN <<" ", "A", "W", "D">> ELSE <<>>)

\* "1.0 benzin 72 hk" with the automatic-gearbox keyword appended or not
GasolineText(automatic) == <<"1", ".", "0", " ", "b", "e", "n", "z", "i", "n", " ", "7", "2", " ", "h", "k">> \o (IF automatic THEN <<" ", "a", "u", "t", "o", "m", "a", "t", "g", "e", "a", "r">> ELSE <<>>)

ElectricTexts == {ElectricText(b, p, a) : b \in Batteries, p \in Powers, a \in BOOLEAN}
                     \cup {<<"5", "7", ".", "7", " ", "K", "W", "h", " ", "1", "6", "7", " ", "h", "k">>}
GasolineTexts == {GasolineText(a) : a \in BOOLEAN}
HybridTexts == {<<"1", ".", "5", " ", "H", "y", "b", "r", "i", "d", " ", "1", "1", "6", " ", "h", "k", " ", "a", "u", "t", "o", "m", "a", "t", "g", "e", "a", "r">>, <<"2", ".", "0", " ", "H", "y", "b", "r", "i", "d", " ", "1", "8", "4", " ", "h", "k">>}
EngineTexts == ElectricTexts \cup GasolineTexts \cup HybridTexts

MaxCalls == 2

(***************************************************************************)
(* Specification SpecId: generate_unique_variant_id applied to one model   *)
(* and trim label with several engine texts                                *)
(***************************************************************************)
IdIdle == gModel = <<>> /\ gVariant = <<>> /\ calls = {}
DedupIdle == dItems = <<>> /\ dOut = None /\ dAgain = None
FnIdle == fIn = None /\ fOut = None
CacheIdle ==
    /\ max_size = 0
    /\ ttl_seconds = 0
    /\ cache = <<>>
    /\ cache_lock = 0
    /\ wall_clock = 0
    /\ threads = <<>>
    /\ uses = <<>>
    /\ cache_calls = 0
RunIdle ==
    /\ template_config = [debugging |-> FALSE, add_extraction_timestamp |-> FALSE, normalize_case |-> "Title"]
    /\ debug_info = None
    /\ current_page = None
    /\ utcnow = 0
    /\ document = [readable |-> TRUE, pages |-> <<>>]
    /\ runs = <<>>

InitId ==
    /\ gModel \in Models
    /\ gVariant \in TrimLabels
    /\ calls = {}
    /\ DedupIdle
    /\ RunIdle
    /\ FnIdle
    /\ CacheIdle

GenerateId(engine) ==
    /\ Cardinality(calls) < MaxCalls
    /\ calls' = calls \cup
           {[engine_specification |-> engine,
             id |-> generate_unique_variant_id(gModel, gVariant, engine, None)]}
    /\ UNCHANGED <<gModel, gVariant, dedupVars, runVars, fnVars, cacheVars>>

NextId == \E engine \in EngineTexts : GenerateId(engine)

SpecId == InitId /\ [][NextId]_vars

\* two electric engine texts that differ only in the battery capacity
DifferOnlyInBattery(e1, e2) ==
    \E b1 \in Batteries, b2 \in Batteries, p \in Powers, a \in BOOLEAN :
        /\ b1 # b2
        /\ e1 = ElectricText(b1, p, a)
        /\ e2 = ElectricText(b2, p, a)

\* C1: for every model and trim label, two electric engine texts that differ
\* only in battery capacity never receive the same id.
C1_BatteryNeverCollides ==
    \A c1 \in calls, c2 \in calls :
        DifferOnlyInBattery(c1.engine_specification, c2.engine_specification) => c1.id # c2.id

\* C2: for every model and trim label, a gasoline text without 'automatgear'
\* gets an id ending in '_manual', the same text with the keyword one ending in
\* '_auto', and the two ids differ.
C2_GasolineTransmissionSuffix ==
    /\ \A c \in calls :
           /\ c.engine_specification = GasolineText(FALSE) => EndsWith(c.id, <<"_", "m", "a", "n", "u", "a", "l">>)
           /\ c.engine_specification = GasolineText(TRUE) => EndsWith(c.id, <<"_", "a", "u", "t", "o">>)
    /\ \A c1 \in calls, c2 \in calls :
           (c1.engine_specification = GasolineText(FALSE)
               /\ c2.engine_specification = GasolineText(TRUE)) => c1.id # c2.id
\* the record enhance_variant_with_unique_id is given for a call of SpecId
CallRecord(c) ==
    [model |-> gModel, variant |-> gVariant, engine_specification |-> c.engine_specification]

\* the id the statement of C18 gives: model and trim, the power once, then
\* '_awd' for an engine text that marks AWD and '_electric' otherwise
PowerThenDrive(engine) ==
    <<"b", "z", "4", "x", "_", "a", "c", "t", "i", "v", "e", "_">> \o StrOfInt(extract_power_from_specification(engine)[1]) \o <<"h", "p">>
        \o (IF Contains(Lower(engine), <<"a", "w", "d">>) THEN <<"_", "a", "w", "d">> ELSE <<"_", "e", "l", "e", "c", "t", "r", "i", "c">>)

\* C18: for ('BZ4X', 'Active') and an electric engine text the id is the model
\* and trim, the power suffix once, then '_awd' when the text marks AWD and
\* '_electric' otherwise ('bz4x_active_343hp_awd', 'bz4x_active_167hp_electric').
C18_PowerOnceThenAwdOrElectric ==
    (gModel = <<"B", "Z", "4", "X">> /\ gVariant = <<"A", "c", "t", "i", "v", "e">>) =>
        \A c \in calls :
            categorize_powertrain(c.engine_specification) = <<"e", "l", "e", "c", "t", "r", "i", "c">>
                => c.id = PowerThenDrive(c.engine_specification)

\* C19: for a BZ4X record whose label embeds battery and power text, the id
\* enhance_variant_with_unique_id adds contains neither ',_hk' nor '_,_' and
\* contains the model, the trim name and the power as '167hp'.
C19_NoMalformedId ==
    (gModel = <<"B", "Z", "4", "X">> /\ gVariant = <<"A", "c", "t", "i", "v", "e", " ", "5", "7", ".", "7", " ", "K", "w", "h", ",", " ", "1", "6", "7", " ", "H", "k">>) =>
        \A c \in calls :
            c.engine_specification = <<"5", "7", ".", "7", " ", "k", "W", "h", ",", " ", "1", "6", "7", " ", "h", "k">> =>
                \E id \in {enhance_variant_with_unique_id(CallRecord(c))["id"]} :
                    /\ id = c.id
                    /\ ~Contains(id, <<",", "_", "h", "k">>)
                    /\ ~Contains(id, <<"_", ",", "_">>)
                    /\ Contains(id, <<"b", "z", "4", "x">>)
                    /\ Contains(id, <<"a", "c", "t", "i", "v", "e">>)
                    /\ Contains(id, <<"1", "6", "7", "h", "p">>)

(***************************************************************************)
(* Specification SpecDedup: _remove_duplicates applied to a list of items  *)
(* and then to its own result                                              *)
(***************************************************************************)
MaxItems == 3

\* items whose exact-tuple keys coincide up to case and surrounding blanks, with
\* ids that are empty, shared or distinct
DedupItems ==
    {[model |-> <<"B", "Z", "4", "X">>, variant |-> v, engine_specification |-> <<"7", "3", ".", "1", " ", "k", "W", "h", ",", " ", "2", "2", "4", " ", "h", "k">>,
      monthly_price |-> p, id |-> i] :
        v \in {<<"A", "c", "t", "i", "v", "e">>, <<"A", "C", "T", "I", "V", "E", " ">>}, p \in {2699, 2799}, i \in {<<>>, <<"a">>, <<"b">>}}

InitDedup ==
    /\ dItems = <<>>
    /\ dOut = None
    /\ dAgain = None
    /\ IdIdle
    /\ RunIdle
    /\ FnIdle
    /\ CacheIdle

\* the caller collects one more item
Collect(item) ==
    /\ dOut = None
    /\ Len(dItems) < MaxItems
    /\ dItems' = Append(dItems, item)
    /\ UNCHANGED <<dOut, dAgain, idVars, runVars, fnVars, cacheVars>>

RemoveDuplicates ==
    /\ dOut = None
    /\ dOut' = Some(remove_duplicates(dItems))
    /\ UNCHANGED <<dItems, dAgain, idVars, runVars, fnVars, cacheVars>>

RemoveDuplicatesAgain ==
    /\ dOut # None
    /\ dAgain = None
    /\ dAgain' = Some(remove_duplicates(dOut[1]))
    /\ UNCHANGED <<dItems, dOut, idVars, runVars, fnVars, cacheVars>>

NextDedup ==
    \/ \E item \in DedupItems : Collect(item)
    \/ RemoveDuplicates
    \/ RemoveDuplicatesAgain

SpecDedup == InitDedup /\ [][NextDedup]_vars

\* the items of s that are the first of their exact tuple (model, variant,
\* engine specification, monthly price compared as _remove_duplicates compares them)
FirstOfTuple(s) ==
    AtIndices(s, {i \in DOMAIN s : \A j \in 1..(i - 1) : DedupKey(s[j]) # DedupKey(s[i])})

\* the items of s that have no id or are the first in s with their id
FirstOfId(s) ==
    AtIndices(s, {i \in DOMAIN s : s[i].id = <<>> \/ \A j \in 1..(i - 1) : s[j].id # s[i].id})

\* C3: the result keeps, of the survivors of the exact-tuple pass, the first
\* item of every id (and every item without id), so no two results share a
\* non-empty id.
C3_TuplePassThenFirstSeenId ==
    dOut # None =>
        /\ dOut[1] = FirstOfId(FirstOfTuple(dItems))
        /\ \A i \in DOMAIN dOut[1], j \in DOMAIN dOut[1] :
               (i # j /\ dOut[1][i].id # <<>>) => dOut[1][i].id # dOut[1][j].id

\* a list in which the id pass removes an item that survived the tuple pass
C3_Witness ==
    /\ dOut # None
    /\ Len(FirstOfTuple(dItems)) < Len(dItems)
    /\ Len(dOut[1]) < Len(FirstOfTuple(dItems))

\* C4: applying _remove_duplicates to its own output returns that output.
C4_Idempotent == dAgain # None => dAgain[1] = dOut[1]

\* a second application to an output from which the first removed something
C4_Witness == dAgain # None /\ Len(dOut[1]) < Len(dItems) /\ Len(dOut[1]) >= 2
(***************************************************************************)
(* Specification SpecRun: one ToyotaDanishExtractor and the calls of       *)
(* extract_from_pdf made on it                                             *)
(***************************************************************************)
MaxPages == 2
MaxRuns == 2

NoTable == <<>>

\* AYGO X page: a pricing table with an in-range row and a row priced 50; the
\* page text holds the same first row as a line
PageAygo ==
    [model |-> Some(<<"A", "Y", "G", "O", " ", "X">>),
     tables |-> <<[pricing |-> TRUE,
                   rows |-> <<Row(Some(<<"A", "c", "t", "i", "v", "e">>), Some(2699), Some(4999), Some(<<"1", ".", "0", " ", "b", "e", "n", "z", "i", "n", " ", "7", "2", " ", "h", "k">>)),
                              Row(Some(<<"P", "u", "l", "s", "e">>), Some(50), None, Some(<<"1", ".", "0", " ", "b", "e", "n", "z", "i", "n", " ", "7", "2", " ", "h", "k">>))>>]>>,
     lines |-> <<Line(<<"A", "c", "t", "i", "v", "e">>, 2699, Some(<<"1", ".", "0", " ", "b", "e", "n", "z", "i", "n", " ", "7", "2", " ", "h", "k">>), "standard_format", 90)>>,
     fault |-> FALSE]

\* a continuation page: pricing rows and lines, no model name in its text
PageContinued ==
    [model |-> None,
     tables |-> <<[pricing |-> TRUE,
                   rows |-> <<Row(Some(<<"P", "u", "l", "s", "e">>), Some(2899), None,
                                  Some(<<"1", ".", "0", " ", "b", "e", "n", "z", "i", "n", " ", "7", "2", " ", "h", "k", " ", "a", "u", "t", "o", "m", "a", "t", "g", "e", "a", "r">>))>>]>>,
     lines |-> <<Line(<<"P", "u", "l", "s", "e">>, 2899, Some(<<"1", ".", "0", " ", "b", "e", "n", "z", "i", "n", " ", "7", "2", " ", "h", "k", " ", "a", "u", "t", "o", "m", "a", "t", "g", "e", "a", "r">>), "standard_format", 90)>>,
     fault |-> FALSE]

\* BZ4X page: a table that is no pricing table, a pricing table none of whose
\* rows gives a variant and a price, and text lines of which two describe the
\* same configuration with and without the battery/power text in the label
PageBz4x ==
    [model |-> Some(<<"B", "Z", "4", "X">>),
     tables |-> <<[pricing |-> FALSE, rows |-> <<Row(Some(<<"U", "d", "s", "t", "y", "r">>), None, None, None)>>],
                  [pricing |-> TRUE, rows |-> <<Row(None, Some(3999), None, None),
                                                Row(Some(<<"A", "c", "t", "i", "v", "e">>), None, None, None)>>]>>,
     lines |-> <<Line(<<"A", "c", "t", "i", "v", "e", " ", "5", "7", ".", "7", " ", "K", "w", "h", ",", " ", "1", "6", "7", " ", "H", "k">>, 3999, Some(<<"5", "7", ".", "7", " ", "k", "W", "h", ",", " ", "1", "6", "7", " ", "h", "k">>),
                      "electric_format", 90),
                 [priced |-> TRUE, parsed |-> None],
                 Line(<<"A", "c", "t", "i", "v", "e">>, 3999, Some(<<"5", "7", ".", "7", " ", "k", "W", "h", ",", " ", "1", "6", "7", " ", "h", "k">>), "electric_format", 90),
                 [priced |-> FALSE, parsed |-> None]>>,
     fault |-> FALSE]

\* a page whose text cannot be read
PageFaulty == [model |-> None, tables |-> NoTable, lines |-> <<>>, fault |-> TRUE]

Pages == {PageAygo, PageContinued, PageBz4x, PageFaulty}

RECURSIVE PageSeqs(_)
PageSeqs(n) ==
    IF n = 0 THEN {<<>>}
    ELSE PageSeqs(n - 1) \cup {Append(s, p) : s \in {t \in PageSeqs(n - 1) : Len(t) = n - 1}, p \in Pages}

\* the documents: every page sequence up to MaxPages, and a file that cannot be opened
Documents ==
    {[readable |-> TRUE, pages |-> s] : s \in PageSeqs(MaxPages)}
        \cup {[readable |-> FALSE, pages |-> <<>>]}

\* another upload handled by the same extractor between two runs of the document
OtherDocument ==
    [readable |-> TRUE,
     pages |-> <<[model |-> Some(<<"Y", "A", "R", "I", "S">>),
                  tables |-> NoTable,
                  lines |-> <<Line(<<"S", "t", "y", "l", "e", " ", "A", "u", "t", "o">>, 3299, Some(<<"1", ".", "5", " ", "H", "y", "b", "r", "i", "d", " ", "1", "1", "6", " ", "h", "k", " ", "a", "u", "t", "o", "m", "a", "t", "g", "e", "a", "r">>),
                                   "standard_format", 90)>>,
                  fault |-> FALSE]>>]

InitRun ==
    /\ template_config \in Configs
    /\ debug_info = NewDebugInfo(template_config)
    /\ current_page = None
    /\ utcnow = 0
    /\ document \in Documents
    /\ runs = <<>>
    /\ IdIdle
    /\ DedupIdle
    /\ FnIdle
    /\ CacheIdle

\* extract_from_pdf(pdf_content) on the extractor. A run takes time, so the
\* next run reads a later clock; within a run every item is stamped with the
\* reading at its start.
ExtractFromPdf(doc) ==
    /\ Len(runs) < MaxRuns
    /\ \E out \in {extract_from_pdf(Len(runs) + 1, template_config, doc, debug_info,
                                     current_page, utcnow)} :
           /\ runs' = Append(runs, [doc |-> doc, raised |-> out.raised,
                                    processed |-> out.processed, result |-> out.result])
           /\ debug_info' = out.debug_info
           /\ current_page' = out.context
    /\ utcnow' = utcnow + 1
    /\ UNCHANGED <<template_config, document, idVars, dedupVars, fnVars, cacheVars>>

\* ToyotaDanishExtractor(template_config): the caller replaces the extractor by
\* a new one with the same configuration
Construct ==
    /\ runs # <<>>
    /\ debug_info' = NewDebugInfo(template_config)
    /\ current_page' = None
    /\ UNCHANGED <<template_config, utcnow, document, runs, idVars, dedupVars, fnVars, cacheVars>>

NextRun ==
    \/ \E doc \in {document, OtherDocument} : ExtractFromPdf(doc)
    \/ Construct

SpecRun == InitRun /\ [][NextRun]_vars
\* the runs that ended in the except clause, and the others
Failed(k) ==
    \/ ~runs[k].doc.readable
    \/ \E n \in DOMAIN runs[k].doc.pages : runs[k].doc.pages[n].fault
InSeq(x, s) == \E i \in DOMAIN s : s[i] = x
PageOf(k, item) == runs[k].doc.pages[item.source.page]
HasPricingTable(page) == \E t \in DOMAIN page.tables : page.tables[t].pricing
HasRowsOrLines(page) ==
    \/ \E t \in DOMAIN page.tables :
           \E r \in DOMAIN page.tables[t].rows :
               page.tables[t].rows[r].variant # None /\ page.tables[t].rows[r].monthly_price # None
    \/ \E l \in DOMAIN page.lines : page.lines[l].parsed # None

\* C5: two runs of extract_from_pdf on the same document with the same
\* configuration return identical item lists: the same items with the same
\* value in every field, in the same order.
C5_SameInputSameItems ==
    \A i, j \in DOMAIN runs :
        runs[i].doc = runs[j].doc => runs[i].result.items = runs[j].result.items

\* C6: a run on a document that cannot be opened, or one of whose pages raises
\* while it is processed, raises nothing and returns success = false, no item
\* (none of those of the earlier pages either) and the failure reason in errors.
C6_FailureReturnsNoItems ==
    \A k \in DOMAIN runs :
        Failed(k) =>
            /\ ~runs[k].raised
            /\ ~runs[k].result.success
            /\ runs[k].result.items = <<>>
            /\ \E e \in DOMAIN runs[k].result.errors :
                   runs[k].result.errors[e].msg = "Extraction failed"

\* a run failed on its second page after its first page had given candidates
C6_Witness ==
    \E k \in DOMAIN runs :
        /\ Len(runs[k].doc.pages) >= 2
        /\ runs[k].doc.pages[1] = PageAygo
        /\ runs[k].doc.pages[2].fault
        /\ ~runs[k].result.success

\* what the validation rules of the configuration accept, read off the
\* configuration alone
Acceptable(item) ==
    /\ \A f \in {"model", "variant", "monthly_price"} : f \in DOMAIN item
    /\ item.model \in toyota_models
    /\ item.variant # <<>>
    /\ item.monthly_price >= price_validation.monthly_min
    /\ item.monthly_price <= price_validation.monthly_max
    /\ "first_payment" \in DOMAIN item =>
           /\ item.first_payment >= price_validation.first_payment_min
           /\ item.first_payment <= price_validation.first_payment_max

\* C7: in a run that raised nothing, a post-processed record that fails
\* validation is absent from the returned items and its reason is in errors (a
\* monthly price outside the range is reported with the price), every record
\* that passes is returned, and success = true.
C7_InvalidExcludedValidReturned ==
    \A k \in DOMAIN runs :
        ~Failed(k) =>
            /\ runs[k].result.success
            /\ \A i \in DOMAIN runs[k].processed :
                   LET item == runs[k].processed[i]
                   IN  IF Acceptable(item)
                       THEN InSeq(item, runs[k].result.items)
                       ELSE /\ ~InSeq(item, runs[k].result.items)
                            /\ runs[k].result.errors # <<>>
                            /\ item.monthly_price < price_validation.monthly_min =>
                                   InSeq(ErrorEntry("Monthly price outside valid range",
                                                    "monthly_price", StrOfInt(item.monthly_price)),
                                         runs[k].result.errors)
            /\ \A i \in DOMAIN runs[k].result.items :
                   InSeq(runs[k].result.items[i], runs[k].processed)

\* a run whose records include one priced 50 and one priced 2699: the first
\* is rejected with its reason, the second returned
C7_Witness ==
    \E k \in DOMAIN runs :
        /\ runs[k].result.success
        /\ \E i \in DOMAIN runs[k].processed :
               /\ runs[k].processed[i].monthly_price = 50
               /\ ~InSeq(runs[k].processed[i], runs[k].result.items)
        /\ \E i \in DOMAIN runs[k].result.items : runs[k].result.items[i].monthly_price = 2699
        /\ runs[k].result.errors # <<>>

\* C8: the result of a run holds nothing accumulated by an earlier run: every
\* debug log entry in the debug_info of the result of run k was logged by run k.
C8_NothingFromEarlierRuns ==
    \A k \in DOMAIN runs :
        runs[k].result.debug_info # None =>
            \A c \in Categories :
                \A e \in DOMAIN runs[k].result.debug_info[1][c] :
                    runs[k].result.debug_info[1][c][e].run = k

C10_NoLinesBesideAPricingTable ==
    \A k \in DOMAIN runs :
        \A i \in DOMAIN runs[k].processed :
            HasPricingTable(PageOf(k, runs[k].processed[i]))
                => "line" \notin DOMAIN runs[k].processed[i].source

(***************************************************************************)
(* Specification SpecTable: one table of cells classified and read         *)
(***************************************************************************)
MaxRows == 3

TableHeaders ==
    {<<<<"V", "a", "r", "i", "a", "n", "t">>, <<"Y", "d", "e", "l", "s", "e", " ", "p", "r", ".", " ", "m", "d">>>>,
     <<<<"V", "a", "r", "i", "a", "n", "t">>, <<"P", "r", "i", "s">>>>,
     <<<<"V", "a", "r", "i", "a", "n", "t">>, <<"U", "d", "s", "t", "y", "r">>>>,
     <<<<"V", "a", "r", "i", "a", "n", "t">>, <<"M", "o", "n", "t", "h", "l", "y">>>>,
     <<<<"U", "d", "s", "t", "y", "r">>, <<"P", "r", "i", "s", " ", "k", "r", ".">>>>}

TableRows ==
    {<<<<"A", "c", "t", "i", "v", "e">>, <<"2", ".", "6", "9", "9">>>>,
     <<<<"P", "u", "l", "s", "e">>, <<"2", ",", "8", "9", "9", " ", "k", "r", ".">>>>,
     <<<<"E", "x", "e", "c", "u", "t", "i", "v", "e">>, <<"2", "7">>>>,
     <<<<"S", "e", " ", "n", "o", "t", "e">>, <<>>>>,
     <<<<>>, <<>>>>}

RECURSIVE RowSeqs(_)
RowSeqs(n) ==
    IF n = 0 THEN {<<>>}
    ELSE RowSeqs(n - 1)
             \cup {Append(s, r) : s \in {t \in RowSeqs(n - 1) : Len(t) = n - 1}, r \in TableRows}

\* a header row and up to MaxRows data rows
Tables == {<<h>> \o rows : h \in TableHeaders, rows \in RowSeqs(MaxRows)}

TableModel == <<"A", "Y", "G", "O", " ", "X">>

InitTable ==
    /\ fIn \in Tables
    /\ fOut = None
    /\ IdIdle
    /\ DedupIdle
    /\ RunIdle
    /\ CacheIdle

\* the table loop of _extract_models_from_page on a page whose one table is
\* fIn: _is_pricing_table, then _extract_variants_from_pricing_table
ReadOneTable ==
    /\ fOut = None
    /\ fOut' = Some([pricing |-> is_pricing_table(fIn),
                     items |-> extract_variants_from_pricing_table(1, ReadTable(fIn), TableModel,
                                                                    1, 0).items,
                     page_items |-> TablesLoop(1, <<ReadTable(fIn)>>, 1, TableModel, 1,
                                               [items |-> <<>>, log |-> <<>>]).items])
    /\ UNCHANGED <<fIn, idVars, dedupVars, runVars, cacheVars>>

NextTable == ReadOneTable

SpecTable == InitTable /\ [][NextTable]_vars

\* no header cell holds a keyword of the monthly-price column
NoMonthlyHeader(table) ==
    \A c \in DOMAIN table[1] :
        \A k \in DOMAIN monthly_keywords : ~Contains(Lower(table[1][c]), monthly_keywords[k])

\* a cell of the row holds a figure of the price pattern inside the accepted range
HasInRangePriceCell(row) == \E c \in DOMAIN row : parse_danish_price(row[c]) # None

\* C11: when no header cell matches the monthly-price keywords, every data row
\* with a variant label and an in-range price cell still becomes a candidate
\* of _extract_variants_from_pricing_table.
C11_PriceScanWithoutMonthlyHeader ==
    (fOut # None /\ NoMonthlyHeader(fIn)) =>
        \A r \in 2..Len(fIn) :
            (/\ extract_variant_name(fIn[r], find_column_index(fIn[1], variant_keywords)) # None
             /\ HasInRangePriceCell(fIn[r]))
                => \E i \in DOMAIN fOut[1].items : fOut[1].items[i].source.row = r - 1

\* the header row holds a configured pricing keyword
HeaderHasKeyword(table) ==
    \E c \in DOMAIN table[1] :
        \E k \in DOMAIN header_keywords : Contains(Lower(table[1][c]), header_keywords[k])

\* one of the first two data rows holds a price pattern
FirstRowsHavePrice(table) ==
    \E r \in DOMAIN table :
        /\ r \in {2, 3}
        /\ \E c \in DOMAIN table[r] : NextPriceMatch(table[r][c], 1) > 0

\* C12: a table is classified as a pricing table exactly when its header row
\* holds a pricing keyword and one of its first data rows holds a price
\* pattern; a table with only one of the two gives no table candidates.
C12_KeywordAndPrice ==
    fOut # None =>
        /\ fOut[1].pricing <=> (HeaderHasKeyword(fIn) /\ FirstRowsHavePrice(fIn))
        /\ ~(HeaderHasKeyword(fIn) /\ FirstRowsHavePrice(fIn)) => fOut[1].page_items = <<>>

\* a table with a pricing keyword whose only price stands in the third data
\* row, and a table with prices and no pricing keyword: neither is classified
C12_Witness ==
    /\ fOut # None
    /\ ~fOut[1].pricing
    /\ \/ HeaderHasKeyword(fIn) /\ Len(fIn) = 4 /\ HasInRangePriceCell(fIn[4])
       \/ ~HeaderHasKeyword(fIn) /\ FirstRowsHavePrice(fIn)

(***************************************************************************)
(* Specification SpecDetect: the model detected in a page text             *)
(***************************************************************************)
MaxFragments == 3

TextFragments ==
    {<<"Y", "A", "R", "I", "S", " ", "C", "R", "O", "S", "S">>, <<"Y", "a", "r", "i", "s">>, <<"C", "O", "R", "O", "L", "L", "A", " ", "T", "O", "U", "R", "I", "N", "G", " ", "S", "P", "O", "R", "T", "S">>, <<"C", "o", "r", "o", "l", "l", "a">>, <<"A", "Y", "G", "O", " ", "X">>,
     <<"S", "E", " ", "U", "D", "S", "T", "Y", "R", "S", "V", "A", "R", "I", "A", "N", "T", "E", "R">>, <<"P", "r", "i", "s", "e", "r", " ", "f", "r", "a", " ", "2", ".", "6", "9", "9", " ", "k", "r", ".", "/", "m", "d", ".">>, <<"b", "Z", "4", "X">>}

\* the page texts: up to MaxFragments fragments, one per line
RECURSIVE PageTexts(_)
PageTexts(n) ==
    IF n = 0 THEN {<<>>}
    ELSE PageTexts(n - 1)
             \cup {f : f \in TextFragments}
             \cup {t \o <<"\n">> \o f : t \in PageTexts(n - 1) \ {<<>>}, f \in TextFragments}

InitDetect ==
    /\ fIn \in PageTexts(MaxFragments)
    /\ fOut = None
    /\ IdIdle
    /\ DedupIdle
    /\ RunIdle
    /\ CacheIdle

\* _detect_model_on_page(text)
DetectModel ==
    /\ fOut = None
    /\ fOut' = Some(detect_model_on_page(fIn))
    /\ UNCHANGED <<fIn, idVars, dedupVars, runVars, cacheVars>>

NextDetect == DetectModel

SpecDetect == InitDetect /\ [][NextDetect]_vars

\* the text (in upper case) names specific, and names generic only as the
\* beginning of specific
NamesOnlySpecific(upper, specific, generic) ==
    /\ Contains(upper, specific)
    /\ \A p \in DOMAIN upper : OccursAt(upper, generic, p) => OccursAt(upper, specific, p)

\* the text names no model family other than that of specific
NamesNoOtherFamily(upper, specific) ==
    \A k \in DOMAIN model_patterns :
        Contains(upper, model_patterns[k].name) => Contains(specific, model_patterns[k].name)

\* C13 for one specific name and the generic name it contains
SpecificWins(upper, specific, generic) ==
    NamesOnlySpecific(upper, specific, generic) =>
        /\ fOut[1] # Some(generic)
        /\ NamesNoOtherFamily(upper, specific) => fOut[1] = Some(specific)

LineLabels == {<<"A", "c", "t", "i", "v", "e">>, <<"E", "x", "e", "c", "u", "t", "i", "v", "e", " ", "P", "a", "n", "o", "r", "a", "m", "a">>, <<"P", "u", "l", "s", "e">>, <<"S", "t", "y", "l", "e", " ", " ", "C", "o", "m", "f", "o", "r", "t">>, <<"x">>}

LineTails ==
    {<<"2", ".", "6", "9", "9", " ", "4", ".", "9", "9", "9", " ", "3", "7", ".", "3", "8", "7", " ", "1", "0", "2", ".", "1", "6", "3", " ", "2", "0", ",", "8", "3", "/", "1", "1", "0", " ", "1", "5", ".", "0", "0", "0", " ", "5", "9", "0">>,
     <<"2", ".", "8", "9", "9", " ", "4", ".", "9", "9", "9", " ", "3", "9", ".", "7", "8", "7", " ", "1", "0", "4", ".", "5", "6", "3", " ", "1", "9", ",", "6", "/", "1", "1", "3", " ", "1", "5", ".", "0", "0", "0", " ", "1", "1", "8", "0">>,
     <<"3", ".", "9", "9", "9", " ", "9", ".", "9", "9", "9", " ", "5", "7", ".", "9", "8", "7", " ", "1", "5", "3", ".", "9", "6", "3", " ", "1", "3", "6", " ", "4", "4", "4", " ", "5", "7", ",", "7", "/", "5", "4", " ", "1", "5", ".", "0", "0", "0", " ", "4", "2", "0">>,
     <<"4", ".", "6", "9", "9", " ", "9", ".", "9", "9", "9", " ", "6", "6", ".", "3", "8", "7", " ", "1", "7", "9", ".", "1", "6", "3", " ", "1", "4", "9", " ", "5", "1", "3", " ", "7", "3", ",", "1", "/", "6", "9", " ", "1", "5", ".", "0", "0", "0", " ", "4", "2", "0">>,
     <<"3", ".", "9", "4", "9", " ", "0", " ", "4", "7", ".", "3", "8", "8", " ", "1", "4", "2", ".", "1", "6", "4", " ", "2", "2", ",", "2", "/", "1", "0", "1", " ", "1", "5", ".", "0", "0", "0", " ", "5", "8", "0">>,
     <<"3", ".", "9", "4", "9", " ", "1", "4", ".", "9", "9", "9", " ", "4", "7", ".", "3", "8", "8", " ", "1", "4", "2", ".", "1", "6", "4", " ", "2", "2", ",", "2", "/", "1", "0", "1", " ", "1", "5", ".", "0", "0", "0", " ", "5", "8", "0">>,
     <<"2", ".", "6", "9", "9", " ", "4", ".", "9", "9", "9", " ", "3", "7", ".", "3", "8", "7", " ", "1", "0", "2", ".", "1", "6", "3", " ", "2", "0", ",", "8", "3", "/", "1", "1", "0", " ", "1", "5", ".", "0", "0", "0">>,
     <<"2", ".", "6", "9", "9", " ", "k", "r", ".", "/", "m", "d", ".", " ", "i", "n", "k", "l", ".", " ", "m", "o", "m", "s">>,
     <<"f", "r", "a", " ", "2", ".", "6", "9", "9", " ", "k", "r", ".">>,
     <<"2", "7", " ", "4", ".", "9", "9", "9", " ", "k", "r", ".">>,
     <<"9", "9", "9", " ", "1", ".", "6", "0", "0", " ", "k", "r", ".">>,
     <<"2", ".", "6", "9", "9">>,
     <<"1", "6", ".", "0", "0", "0", " ", "k", "r", ".", " ", "i", " ", "a", "l", "t">>}

LineEngines == {<<"1", ".", "0", " ", "b", "e", "n", "z", "i", "n", " ", "7", "2", " ", "h", "k">>, <<"5", "7", ".", "7", " ", "k", "W", "h", ",", " ", "1", "6", "7", " ", "h", "k">>}

InitLine ==
    /\ fIn \in {[line |-> label \o <<" ">> \o tail \o pad, engine |-> engine] :
                    label \in LineLabels, tail \in LineTails, engine \in LineEngines,
                    pad \in {<<>>, <<" ">>}}
    /\ fOut = None
    /\ IdIdle
    /\ DedupIdle
    /\ RunIdle
    /\ CacheIdle

\* _parse_pricing_line(line, model, page_num, line_idx)
ParsePricingLine ==
    /\ fOut = None
    /\ fOut' = Some(parse_pricing_line(fIn.line, fIn.engine))
    /\ UNCHANGED <<fIn, idVars, dedupVars, runVars, cacheVars>>

NextLine == ParsePricingLine

SpecLine == InitLine /\ [][NextLine]_vars

\* the first of the three specific patterns that matches the whole stripped
\* line, "none" if none does
FirstWholeLineMatch(line) ==
    LET parts == Parts(Strip(line), PartSpans(Strip(line), 1))
    IN  IF PatternMatches(parts, line_patterns.standard_format) THEN "standard_format"
        ELSE IF PatternMatches(parts, line_patterns.electric_format) THEN "electric_format"
        ELSE IF PatternMatches(parts, line_patterns.compact_format) THEN "compact_format"
        ELSE "none"

\* C14: the candidate of a line is built by the first of the standard, electric
\* and compact patterns that matches the whole line, with confidence 0.9, 0.9
\* and 0.8; the catch-all parser is reached only when none matches, and its
\* candidate has confidence 0.6.
C14_FirstPatternWins ==
    fOut # None =>
        IF FirstWholeLineMatch(fIn.line) # "none"
        THEN /\ fOut[1] # None
             /\ fOut[1][1].extraction_method = FirstWholeLineMatch(fIn.line)
             /\ fOut[1][1].confidence \in {80, 90}
        ELSE fOut[1] # None =>
                 /\ fOut[1][1].extraction_method = "flexible_format"
                 /\ fOut[1][1].confidence = 60

\* a line of the compact format parsed as such, and a line that only the
\* catch-all parser takes
C14_Witness ==
    /\ fOut # None
    /\ fOut[1] # None
    /\ \/ fOut[1][1].extraction_method = "compact_format"
       \/ fOut[1][1].extraction_method = "flexible_format"

(***************************************************************************)
(* Specification SpecStd: two candidates of one model, one from a table    *)
(* row and one from a text line, taken through _post_process_items.        *)
(* fIn.created is each candidate as its extraction step built it;          *)
(* fIn.items is the list object handed to _post_process_items, whose       *)
(* dictionaries the loop body works on.                                    *)
(***************************************************************************)
StdModels == toyota_models

Bz4xSuffixes == {<<" ", "5", "7", ".", "7", " ", "K", "w", "h", ",", " ", "1", "6", "7", " ", "H", "k">>, <<",", " ", "1", "6", "7", " ", "H", "k">>}

StdTrims == {<<"A", "c", "t", "i", "v", "e">>}

StdLabels ==
    StdTrims \cup {trim \o suffix : trim \in StdTrims, suffix \in Bz4xSuffixes}
             \cup {<<"A", "c", "t", "i", "v", "e", " ", "A", "u", "t", "o">>, <<"G", "R", " ", "S", "p", "o", "r", "t", " ", "1", "4", "0", "h", "p">>}

StdEngines ==
    {<<"1", ".", "0", " ", "b", "e", "n", "z", "i", "n", " ", "7", "2", " ", "h", "k">>, <<"1", ".", "0", " ", "B", "e", "n", "z", "i", "n", " ", "7", "2", " ", "H", "K">>, <<"1", ".", "0", " ", "b", "e", "n", "z", "i", "n", " ", "7", "2", " ", "h", "k", " ", "a", "u", "t", "o", "m", "a", "t", "g", "e", "a", "r">>, <<"5", "7", ".", "7", " ", "k", "W", "h", ",", " ", "1", "6", "7", " ", "h", "k">>}

\* variant_standardization.normalize_case: "Title" or anything else
NormalizeCases == {"Title", "none"}

TableCandidate(model, label, engine) ==
    RowItem(Row(Some(label), Some(2699), None, Some(engine)), model, 1, 0, 0)

TextCandidate(model, label, engine) ==
    LineItem([variant |-> label, monthly_price |-> 2699, engine_specification |-> Some(engine),
              extraction_method |-> "standard_format", confidence |-> 90], model, 1, 0)

StdCandidates ==
    {<<TableCandidate(model, label1, engine1), TextCandidate(model, label2, engine2)>> :
        model \in StdModels, label1 \in StdLabels, label2 \in StdLabels,
        engine1 \in StdEngines, engine2 \in StdEngines}

InitStd ==
    /\ \E created \in StdCandidates, normalize_case \in NormalizeCases :
           fIn = [config |-> [debugging |-> FALSE, add_extraction_timestamp |-> TRUE,
                              normalize_case |-> normalize_case],
                  created |-> created,
                  items |-> created]
    /\ fOut = None
    /\ IdIdle
    /\ DedupIdle
    /\ RunIdle
    /\ CacheIdle

\* lines 974-988, one pass of the loop body over every item.
\* _standardize_variant_name and _enrich_data assign into the dictionary they
\* are given and return it (lines 1038, 1122, 1245, 1124, 1247), so the
\* dictionaries of the list handed in hold the standardized values afterwards;
\* enhance_variant_with_unique_id builds a new dictionary (line 1845).
StandardizedInPlace(config, items, now) ==
    [k \in DOMAIN items |-> enrich_data(config, standardize_variant_name(config, items[k]), now)]

EnhancedItems(items) == [k \in DOMAIN items |-> enhance_variant_with_unique_id(items[k])]

\* _post_process_items(items)
PostProcessItems ==
    /\ fOut = None
    /\ \E standardized \in {StandardizedInPlace(fIn.config, fIn.items, 1)} :
           /\ fIn' = [fIn EXCEPT !.items = standardized]
           /\ fOut' = Some([standardized |-> standardized,
                            enhanced |-> EnhancedItems(standardized),
                            returned |-> remove_duplicates(EnhancedItems(standardized))])
    /\ UNCHANGED <<idVars, dedupVars, runVars, cacheVars>>

NextStd == PostProcessItems

SpecStd == InitStd /\ [][NextStd]_vars

\* the families whose variant is built from trim label and engine text
EngineFamilies == {<<"A", "Y", "G", "O", " ", "X">>, <<"Y", "A", "R", "I", "S">>, <<"Y", "A", "R", "I", "S", " ", "C", "R", "O", "S", "S">>, <<"C", "O", "R", "O", "L", "L", "A", " ", "T", "O", "U", "R", "I", "N", "G", " ", "S", "P", "O", "R", "T", "S">>, <<"U", "R", "B", "A", "N", " ", "C", "R", "U", "I", "S", "E", "R">>}

IsPrefix(p, s) == Len(p) <= Len(s) /\ SubSeq(s, 1, Len(p)) = p

\* name is a beginning of the label followed by one space and the engine text,
\* letter case aside
TrimThenEngine(name, label, engine) ==
    /\ EndsWith(Lower(name), <<" ">> \o Lower(engine))
    /\ IsPrefix(SubSeq(Lower(name), 1, Len(name) - Len(engine) - 1), Lower(label))

SameTrimLabel(created) == created[1]["variant"] = created[2]["variant"]

SuffixedAndBare(created) ==
    \E suffix \in Bz4xSuffixes :
        created[1]["variant"] = created[2]["variant"] \o suffix

\* C16: in the BZ4X family, a label with a battery/power suffix and the bare
\* trim label with the same engine text are standardized to the same canonical
\* variant name and get the same id.
C16_SuffixedLabelSameIdentity ==
    (/\ fOut # None
     /\ fIn.created[1]["model"] = <<"B", "Z", "4", "X">>
     /\ SuffixedAndBare(fIn.created)
     /\ fIn.created[1]["engine_specification"] = fIn.created[2]["engine_specification"])
    => /\ fOut[1].standardized[1]["variant"] = fOut[1].standardized[2]["variant"]
       /\ fOut[1].enhanced[1]["id"] = fOut[1].enhanced[2]["id"]
       /\ Len(fOut[1].returned) = 1

\* 'Active 57.7 Kwh, 167 Hk' from a table and 'Active' from text, both with
\* engine text '57.7 kWh, 167 hk', after post-processing
C16_Witness ==
    /\ fOut # None
    /\ fIn.created[1]["model"] = <<"B", "Z", "4", "X">>
    /\ fIn.created[1]["variant"] = <<"A", "c", "t", "i", "v", "e", " ", "5", "7", ".", "7", " ", "K", "w", "h", ",", " ", "1", "6", "7", " ", "H", "k">>
    /\ fIn.created[2]["variant"] = <<"A", "c", "t", "i", "v", "e">>
    /\ fIn.created[1]["engine_specification"] = <<"5", "7", ".", "7", " ", "k", "W", "h", ",", " ", "1", "6", "7", " ", "h", "k">>
    /\ fIn.created[2]["engine_specification"] = <<"5", "7", ".", "7", " ", "k", "W", "h", ",", " ", "1", "6", "7", " ", "h", "k">>
    /\ fOut[1].enhanced[1]["id"] = fOut[1].enhanced[2]["id"]

\* C17: after post-processing, every candidate handed in still has the
\* field values it was created with.
C17_CandidatesNotMutated ==
    fOut # None => fIn.items = fIn.created

(***************************************************************************)
(* Specification SpecPage: runs of extract_from_pdf on a one-page document *)
(* given as page text and one table of cells                               *)
(***************************************************************************)
\* lines 142-184, 356-382: the page as _extract_models_from_page reads it from
\* its text (one line) and its tables of cells. No line of the texts used has
\* the fields of a specific line format, so no engine text is looked up.
ReadPage(text, tables) ==
    [model |-> detect_model_on_page(text),
     tables |-> [t \in DOMAIN tables |-> ReadTable(tables[t])],
     lines |-> <<[priced |-> contains_price_pattern(Strip(text)),
                  parsed |-> parse_pricing_line(text, <<>>)]>>,
     fault |-> FALSE,
     text |-> text,
     cells |-> tables]

PageTextsOfOne == {<<"A", "Y", "G", "O", " ", "X">>, <<"T", "o", "y", "o", "t", "a", " ", "B", "Z", "4", "X", " ", "S", "E", " ", "U", "D", "S", "T", "Y", "R", "S", "V", "A", "R", "I", "A", "N", "T", "E", "R">>, <<"Y", "A", "R", "I", "S", " ", "C", "R", "O", "S", "S">>, <<"T", "o", "y", "o", "t", "a">>}

SimpleTable == << <<<<"V", "a", "r", "i", "a", "n", "t">>, <<"M", "o", "n", "t", "h", "l", "y">>>>, <<<<"A", "c", "t", "i", "v", "e">>, <<"2", ".", "6", "9", "9">>>> >>

OneTables ==
    {SimpleTable,
     << <<<<"V", "a", "r", "i", "a", "n", "t">>, <<"M", "o", "n", "t", "h", "l", "y">>>>, <<<<"A", "c", "t", "i", "v", "e">>, <<"2", "7">>>> >>,
     << <<<<"V", "a", "r", "i", "a", "n", "t">>, <<"M", "o", "n", "t", "h", "l", "y">>>>, <<<<"A", "c", "t", "i", "v", "e">>, <<"2", ".", "6", "9", "9">>>>, <<<<"P", "u", "l", "s", "e">>, <<"2", ".", "8", "9", "9">>>> >>}

OnePageDocuments ==
    {[readable |-> TRUE, pages |-> <<ReadPage(text, <<table>>)>>] :
        text \in PageTextsOfOne, table \in OneTables}

InitPage ==
    /\ template_config \in Configs
    /\ debug_info = NewDebugInfo(template_config)
    /\ current_page = None
    /\ utcnow = 0
    /\ document \in OnePageDocuments
    /\ runs = <<>>
    /\ IdIdle
    /\ DedupIdle
    /\ FnIdle
    /\ CacheIdle

SpecPage == InitPage /\ [][NextRun]_vars

\* the document of the scenario: the text names a model of the configuration,
\* the one table is ['Variant', 'Monthly'] / ['Active', '2.699']
IsSimpleDocument(doc) ==
    /\ doc = document
    /\ \E name \in toyota_models : Contains(Upper(doc.pages[1].text), name)
    /\ doc.pages[1].cells = <<SimpleTable>>

\* C20: every run on the one-page document whose text names a known model and
\* whose single pricing table is ['Variant', 'Monthly'] / ['Active', '2.699']
\* returns exactly one item, with monthly_price 2699 and a non-empty id, and
\* the id is the same in every run.
C20_OneItemAt2699 ==
    /\ \A k \in DOMAIN runs :
           IsSimpleDocument(runs[k].doc) =>
               /\ Len(runs[k].result.items) = 1
               /\ runs[k].result.items[1]["monthly_price"] = 2699
               /\ runs[k].result.items[1]["id"] # <<>>
    /\ \A i, j \in DOMAIN runs :
           (IsSimpleDocument(runs[i].doc) /\ IsSimpleDocument(runs[j].doc)) =>
               runs[i].result.items[1]["id"] = runs[j].result.items[1]["id"]

\* the scenario's document has been run twice, at two clock readings
C20_Witness ==
    /\ Len(runs) = 2
    /\ IsSimpleDocument(runs[1].doc)
    /\ IsSimpleDocument(runs[2].doc)
    /\ runs[1].result.items[1]["variant"] = <<"A", "c", "t", "i", "v", "e">>
    /\ runs[1].result.metadata.extraction_timestamp # runs[2].result.metadata.extraction_timestamp

(***************************************************************************)
(* Specification SpecPrice: one text parsed by _parse_danish_price         *)
(***************************************************************************)
MaxPriceParts == 2

PriceFragments == {<<"2", ".", "6", "9", "9">>, <<"2", ",", "6", "9", "9">>, <<"2", "7">>, <<"0", ".", "1", "0", "0">>, <<"9", "9", "9">>, <<"1", ".", "2", "3", "4", ".", "5", "6", "7">>, <<"k", "r", ".">>, <<"1", "2", "3", "4", "5", ".", "6", "7", "8">>}

RECURSIVE PriceTexts(_)
PriceTexts(n) ==
    IF n = 1 THEN PriceFragments
    ELSE PriceTexts(n - 1)
             \cup {t \o <<" ">> \o f : t \in PriceTexts(n - 1), f \in PriceFragments}

InitPrice ==
    /\ fIn \in PriceTexts(MaxPriceParts)
    /\ fOut = None
    /\ IdIdle
    /\ DedupIdle
    /\ RunIdle
    /\ CacheIdle

\* _parse_danish_price(text)
ParseDanishPrice ==
    /\ fOut = None
    /\ fOut' = Some(parse_danish_price(fIn))
    /\ UNCHANGED <<fIn, idVars, dedupVars, runVars, cacheVars>>

NextPrice == ParseDanishPrice

SpecPrice == InitPrice /\ [][NextPrice]_vars

\* the values of the candidate matches of the text from position i on, in the
\* order re.finditer yields them
RECURSIVE CandidateValues(_, _)
CandidateValues(text, i) ==
    IF NextPriceMatch(text, i) = 0 THEN <<>>
    ELSE <<PriceValueAt(text, NextPriceMatch(text, i))>>
             \o CandidateValues(text, PriceMatchEnd(text, NextPriceMatch(text, i)))

InPriceRange(v) == price_pattern.min_value <= v /\ v <= price_pattern.max_value

\* C21: the result is the value of the first candidate match that lies in the
\* configured range, and None when no candidate is in range; '2.699' and
\* '2,699' give 2699 and '27' gives None.
C21_FirstInRangeMatch ==
    fOut # None =>
        \E values \in {CandidateValues(fIn, 1)} :
            /\ IF \E k \in DOMAIN values : InPriceRange(values[k])
               THEN /\ fOut[1] # None
                    /\ InPriceRange(fOut[1][1])
                    /\ \E k \in DOMAIN values :
                           /\ fOut[1][1] = values[k]
                           /\ \A j \in 1..(k - 1) : ~InPriceRange(values[j])
               ELSE fOut[1] = None
            /\ fIn \in {<<"2", ".", "6", "9", "9">>, <<"2", ",", "6", "9", "9">>} => fOut[1] = Some(2699)
            /\ fIn = <<"2", "7">> => fOut[1] = None

\* a text whose first candidate is below the range and whose second is in it
C21_Witness ==
    /\ fOut # None
    /\ fIn = <<"0", ".", "1", "0", "0", " ", "2", ".", "6", "9", "9">>
    /\ fOut[1] = Some(2699)

\* C22: in every item a run returns, drivetrain_type is front-wheel, all-wheel
\* or unknown; never a transmission or powertrain word.
C22_DrivetrainEnumerated ==
    \A k \in DOMAIN runs :
        \A i \in DOMAIN runs[k].result.items :
            runs[k].result.items[i]["drivetrain_type"] \in {<<"f", "w", "d">>, <<"a", "w", "d">>, <<"u", "n", "k", "n", "o", "w", "n">>}

(***************************************************************************)
(* Specification SpecDrive: normalize_drivetrain applied to one engine     *)
(* text and one drivetrain field                                           *)
(***************************************************************************)
DrivetrainFields == {None, Some(<<>>), Some(<<"F", "W", "D">>), Some(<<"A", "W", "D">>), Some(<<"M", "a", "n", "u", "a", "l">>)}

InitDrive ==
    /\ fIn \in [engine_spec : EngineTexts \cup {<<>>, <<"1", ".", "5", " ", "H", "y", "b", "r", "i", "d", " ", "1", "1", "6", " ", "h", "k">>},
                drivetrain_field : DrivetrainFields]
    /\ fOut = None
    /\ IdIdle
    /\ DedupIdle
    /\ RunIdle
    /\ CacheIdle

\* normalize_drivetrain(engine_spec, drivetrain_field)
NormalizeDrivetrain ==
    /\ fOut = None
    /\ fOut' = Some(normalize_drivetrain(fIn.engine_spec, fIn.drivetrain_field))
    /\ UNCHANGED <<fIn, idVars, dedupVars, runVars, cacheVars>>

NextDrive == NormalizeDrivetrain

SpecDrive == InitDrive /\ [][NextDrive]_vars

\* C23: the result is the lower-cased drivetrain field when one is given;
\* without one it is 'awd' for a text that mentions AWD, 'auto' for one that
\* mentions automatgear, 'hybrid' for a hybrid text, 'electric' for a kWh text
\* without AWD, and 'fwd' for a gasoline text without automatgear.
C23_DrivetrainFromText ==
    fOut # None =>
        \E engine_lower \in {Lower(fIn.engine_spec)} :
            IF TruthyStr(fIn.drivetrain_field) THEN fOut[1] = Lower(fIn.drivetrain_field[1])
            ELSE /\ Contains(engine_lower, <<"a", "w", "d">>) => fOut[1] = <<"a", "w", "d">>
                 /\ (~Contains(engine_lower, <<"a", "w", "d">>) /\ Contains(engine_lower, <<"a", "u", "t", "o", "m", "a", "t", "g", "e", "a", "r">>))
                        => fOut[1] = <<"a", "u", "t", "o">>
                 /\ (/\ ~Contains(engine_lower, <<"a", "w", "d">>)
                     /\ ~Contains(engine_lower, <<"a", "u", "t", "o", "m", "a", "t", "g", "e", "a", "r">>)
                     /\ Contains(engine_lower, <<"h", "y", "b", "r", "i", "d">>)) => fOut[1] = <<"h", "y", "b", "r", "i", "d">>
                 /\ (~Contains(engine_lower, <<"a", "w", "d">>) /\ Contains(engine_lower, <<"k", "w", "h">>))
                        => fOut[1] = <<"e", "l", "e", "c", "t", "r", "i", "c">>
                 /\ (Contains(engine_lower, <<"b", "e", "n", "z", "i", "n">>) /\ ~Contains(engine_lower, <<"a", "u", "t", "o", "m", "a", "t", "g", "e", "a", "r">>))
                        => fOut[1] = <<"f", "w", "d">>

(***************************************************************************)
(* image_processing/cache.py: ImageCache                                   *)
(*                                                                         *)
(* A key stands for the SHA-256 digest _generate_key computes from the     *)
(* image and the options; it is computed before the lock is taken. Every   *)
(* method body runs inside `with self.lock`.                               *)
(***************************************************************************)
KeysOf(entries) == {entries[i].key : i \in DOMAIN entries}

IndexOf(entries, key) == CHOOSE i \in DOMAIN entries : entries[i].key = key

Without(entries, key) == SelectSeq(entries, LAMBDA e : e.key # key)

\* lines 83-84 with `>` for `>=`: the cache may grow to max_size + 1 entries
RECURSIVE PopWhileFull_AboveCapacity(_, _)
PopWhileFull_AboveCapacity(entries, size) ==
    IF Len(entries) > size
    THEN IF entries = <<>> THEN [raised |-> TRUE, entries |-> entries]
         ELSE PopWhileFull_AboveCapacity(Tail(entries), size)
    ELSE [raised |-> FALSE, entries |-> entries]

\* lines 83-84: popitem(last=False) while the cache holds max_size entries or
\* more; popitem on an empty OrderedDict raises KeyError
RECURSIVE PopWhileFull(_, _)
PopWhileFull(entries, size) ==
    IF Len(entries) >= size
    THEN IF entries = <<>> THEN [raised |-> TRUE, entries |-> entries]
         ELSE PopWhileFull(Tail(entries), size)
    ELSE [raised |-> FALSE, entries |-> entries]

\* lines 87-90: self.cache[key] = {...}; an existing key keeps its place in
\* the OrderedDict, a new key goes to the end
Store(entries, key, now, data) ==
    IF key \in KeysOf(entries)
    THEN [entries EXCEPT ![IndexOf(entries, key)] = [key |-> key, timestamp |-> now, data |-> data]]
    ELSE Append(entries, [key |-> key, timestamp |-> now, data |-> data])

\* lines 81-90: the body of set
SetBody(entries, size, key, now, data) ==
    IF PopWhileFull(entries, size).raised
    THEN [raised |-> TRUE, entries |-> PopWhileFull(entries, size).entries, returned |-> None]
    ELSE [raised |-> FALSE,
          entries |-> Store(PopWhileFull(entries, size).entries, key, now, data),
          returned |-> None]

\* lines 53-68: the body of get; what it returns is the entry's data, kept
\* here with the entry's age at the time of the call
GetBody(entries, ttl, key, now) ==
    IF key \in KeysOf(entries)
    THEN IF now - entries[IndexOf(entries, key)].timestamp > ttl
         THEN [raised |-> FALSE, entries |-> Without(entries, key), returned |-> None]
         ELSE [raised |-> FALSE,
               entries |-> Append(Without(entries, key), entries[IndexOf(entries, key)]),
               returned |-> Some([data |-> entries[IndexOf(entries, key)].data,
                                  age |-> now - entries[IndexOf(entries, key)].timestamp])]
    ELSE [raised |-> FALSE, entries |-> entries, returned |-> None]

\* lines 94-95
ClearBody == [raised |-> FALSE, entries |-> <<>>, returned |-> None]

\* lines 99-115
StatsBody(entries, ttl, now) ==
    [raised |-> FALSE,
     entries |-> entries,
     returned |-> Some([total_entries |-> Len(entries),
                        expired_entries |->
                            Cardinality({i \in DOMAIN entries : now - entries[i].timestamp > ttl})])]

\* the body of the method op
MethodBody(op, entries, size, ttl, key, now, data) ==
    IF op = "set" THEN SetBody(entries, size, key, now, data)
    ELSE IF op = "get" THEN GetBody(entries, ttl, key, now)
    ELSE IF op = "clear" THEN ClearBody
    ELSE StatsBody(entries, ttl, now)

\* a key used now: it becomes the most recently used one
Used(order, key) == Append(SelectSeq(order, LAMBDA k : k # key), key)

(***************************************************************************)
(* Specification SpecCache: threads calling get, set, clear and stats on   *)
(* one ImageCache while the clock advances                                 *)
(***************************************************************************)
MaxCacheCalls == 3

CacheKeys == <<"k1", "k2", "k3", "k4">>
CacheData == {"a"}
CacheSizes == {1, 2}
CacheThreads == {1, 2}
CacheOps == {"get", "set", "clear", "stats"}

\* the keys the callers use: one more than the cache can hold
CallerKeys(size) == {CacheKeys[i] : i \in 1..(size + 1)}

IdleThread == [pc |-> "idle", op |-> "none", key |-> "none", data |-> "none",
               raised |-> FALSE, returned |-> None]

InitCache ==
    /\ max_size \in CacheSizes
    /\ ttl_seconds = 1
    /\ cache = <<>>
    /\ cache_lock = 0
    /\ wall_clock = 0
    /\ threads = [t \in CacheThreads |-> IdleThread]
    /\ uses = <<>>
    /\ cache_calls = MaxCacheCalls
    /\ IdIdle
    /\ DedupIdle
    /\ RunIdle
    /\ FnIdle

\* a thread calls a method: the key is computed (line 51, 79), the lock not yet taken
Call(t, op, key, data) ==
    /\ threads[t].pc = "idle"
    /\ cache_calls > 0
    /\ key \in CallerKeys(max_size)
    /\ threads' = [threads EXCEPT ![t] = [pc |-> "waiting", op |-> op,
                                          key |-> IF op \in {"get", "set"} THEN key ELSE "none",
                                          data |-> IF op = "set" THEN data ELSE "none",
                                          raised |-> FALSE, returned |-> None]]
    /\ cache_calls' = cache_calls - 1
    /\ UNCHANGED <<max_size, ttl_seconds, cache, cache_lock, wall_clock, uses,
                   idVars, dedupVars, runVars, fnVars>>

\* `with self.lock:` entered
Acquire(t) ==
    /\ threads[t].pc = "waiting"
    /\ cache_lock = 0
    /\ cache_lock' = t
    /\ threads' = [threads EXCEPT ![t].pc = "locked"]
    /\ UNCHANGED <<max_size, ttl_seconds, cache, wall_clock, uses, cache_calls,
                   idVars, dedupVars, runVars, fnVars>>

\* the method body runs and the lock is released (also when the body raises)
RunBody(t) ==
    /\ threads[t].pc = "locked"
    /\ cache_lock = t
    /\ \E out \in {MethodBody(threads[t].op, cache, max_size, ttl_seconds, threads[t].key,
                              wall_clock, threads[t].data)} :
           /\ cache' = out.entries
           /\ threads' = [threads EXCEPT ![t].pc = "idle", ![t].raised = out.raised,
                                         ![t].returned = out.returned]
           /\ uses' = IF \/ threads[t].op = "set" /\ ~out.raised
                         \/ threads[t].op = "get" /\ out.returned # None
                      THEN Used(uses, threads[t].key)
                      ELSE uses
    /\ cache_lock' = 0
    /\ UNCHANGED <<max_size, ttl_seconds, wall_clock, cache_calls,
                   idVars, dedupVars, runVars, fnVars>>

\* time passes; the clock is followed until an entry stored at the start has
\* outlived ttl_seconds
Tick ==
    /\ wall_clock <= ttl_seconds
    /\ wall_clock' = wall_clock + 1
    /\ UNCHANGED <<max_size, ttl_seconds, cache, cache_lock, threads, uses, cache_calls,
                   idVars, dedupVars, runVars, fnVars>>

NextCache ==
    \/ \E t \in DOMAIN threads, op \in CacheOps, key \in Range(CacheKeys), data \in CacheData :
           Call(t, op, key, data)
    \/ \E t \in DOMAIN threads : Acquire(t)
    \/ \E t \in DOMAIN threads : RunBody(t)
    \/ Tick

SpecCache == InitCache /\ [][NextCache]_vars

(***************************************************************************)
(* Specification SpecLru: one caller on an ImageCache of three entries     *)
(***************************************************************************)
MaxLruCalls == 5

InitLru ==
    /\ max_size = 3
    /\ ttl_seconds = 0
    /\ cache = <<>>
    /\ cache_lock = 0
    /\ wall_clock = 0
    /\ threads = <<IdleThread>>
    /\ uses = <<>>
    /\ cache_calls = MaxLruCalls
    /\ IdIdle
    /\ DedupIdle
    /\ RunIdle
    /\ FnIdle

SpecLru == InitLru /\ [][NextCache]_vars

\* the least recently used of the keys present
LeastRecentlyUsed(order, entries) ==
    order[CHOOSE i \in DOMAIN order :
              /\ order[i] \in KeysOf(entries)
              /\ \A j \in 1..(i - 1) : order[j] \notin KeysOf(entries)]

\* C24: when the cache holds max_size entries and a set of a key that is not
\* present runs, the keys afterwards are the keys before without the least
\* recently used one (use: a set, or a get that returned the entry), plus the
\* new key.
C24_EvictsLeastRecentlyUsed ==
    [][\A t \in DOMAIN threads :
           (/\ threads[t].pc = "locked"
            /\ threads'[t].pc = "idle"
            /\ threads[t].op = "set"
            /\ Len(cache) = max_size
            /\ threads[t].key \notin KeysOf(cache))
           => KeysOf(cache') =
                  (KeysOf(cache) \ {LeastRecentlyUsed(uses, cache)}) \cup {threads[t].key}]_vars

\* C29: after any interleaving of get, set, clear and stats calls by
\* concurrent threads with max_size >= 1, the cache holds at most max_size
\* entries, no call has raised, and no get has returned an entry older than
\* ttl_seconds.
C29_BoundedNoRaiseNoStale ==
    /\ Len(cache) <= max_size
    /\ \A t \in DOMAIN threads :
           /\ ~threads[t].raised
           /\ (threads[t].op = "get" /\ threads[t].returned # None)
                  => threads[t].returned[1].age <= ttl_seconds

\* an entry has outlived ttl_seconds and a get of its key has returned
\* nothing and removed it, while another thread has begun a call and waits
\* for the lock
C29_Witness ==
    /\ wall_clock = 2
    /\ \E t \in DOMAIN threads :
           /\ threads[t].op = "get"
           /\ threads[t].pc = "idle"
           /\ threads[t].returned = None
           /\ threads[t].key \in {uses[i] : i \in DOMAIN uses}
           /\ threads[t].key \notin KeysOf(cache)
    /\ \E t \in DOMAIN threads : threads[t].pc = "waiting"

(***************************************************************************)
(* Records that differ only in the monthly price (SpecDedup)               *)
(***************************************************************************)
\* two records with the same model, variant and engine specification and
\* different monthly prices
SameCarOtherPrice(a, b) ==
    /\ a.model = b.model
    /\ a.variant = b.variant
    /\ a.engine_specification = b.engine_specification
    /\ a.monthly_price # b.monthly_price

\* the result holds a record with the model, variant, engine specification and
\* monthly price of item
KeptConfiguration(result, item) ==
    \E k \in DOMAIN result : DedupKey(result[k]) = DedupKey(item)

\* C27: of two records with the same model, variant and engine specification
\* and different monthly prices, both configurations are in the result of
\* _remove_duplicates.
C27_PriceDistinguishesRecords ==
    dOut # None =>
        \A i \in DOMAIN dItems, j \in DOMAIN dItems :
            SameCarOtherPrice(dItems[i], dItems[j]) =>
                /\ KeptConfiguration(dOut[1], dItems[i])
                /\ KeptConfiguration(dOut[1], dItems[j])

(***************************************************************************)
(* Toyota27VariantExtractor (toyota_27_variant_extractor.py)               *)
(***************************************************************************)
\* item.copy() followed by the assignments in fields
Assigned(item, fields) == fields @@ item

\* items[:n]
Head_n(items, n) == SubSeq(items, 1, IF Len(items) < n THEN Len(items) ELSE n)

\* lines 22-27 and variants_by_model.get(model, []): the items of one model, in
\* input order
VariantsOfModel(items, model) ==
    AtIndices(items, {i \in DOMAIN items : Get(items[i], "model", <<>>) = model})

\* line 55: the variant name without the transmission word
AygoBaseName(item) ==
    Strip(Replace(Replace(Get(item, "variant", <<>>), <<" ", "A", "u", "t", "o", "m", "a", "t", "g", "e", "a", "r">>, <<>>), <<" ", "a", "u", "t", "o", "m", "a", "t", "g", "e", "a", "r">>, <<>>))

\* lines 52-60: base_variants as the list of (trim, item) pairs in insertion
\* order; a later item of a trim replaces the earlier one in place
RECURSIVE BaseVariantsLoop(_, _, _)
BaseVariantsLoop(items, i, base_variants) ==
    IF i > Len(items) THEN base_variants
    ELSE LET base_name == AygoBaseName(items[i])
             trim == IF Contains(base_name, <<"A", "c", "t", "i", "v", "e">>) THEN Some(<<"A", "c", "t", "i", "v", "e">>)
                     ELSE IF Contains(base_name, <<"P", "u", "l", "s", "e">>) THEN Some(<<"P", "u", "l", "s", "e">>)
                     ELSE None
             at == {k \in DOMAIN base_variants : trim # None /\ base_variants[k][1] = trim[1]}
         IN  BaseVariantsLoop(items, i + 1,
                 IF trim = None THEN base_variants
                 ELSE IF at = {} THEN Append(base_variants, <<trim[1], items[i]>>)
                 ELSE [k \in DOMAIN base_variants |->
                          IF k \in at THEN <<trim[1], items[i]>> ELSE base_variants[k]])

\* lines 65-78: the automatic and the manual variant made of one base item
AygoPair(base_name, base_item) ==
    <<Assigned(base_item,
          [variant |-> base_name \o <<" ", "1", ".", "0", " ", "B", "e", "n", "z", "i", "n", " ", "7", "2", " ", "H", "k", " ", "A", "u", "t", "o", "m", "a", "t", "g", "e", "a", "r">>,
           engine_specification |-> <<"1", ".", "0", " ", "b", "e", "n", "z", "i", "n", " ", "7", "2", " ", "h", "k", " ", "a", "u", "t", "o", "m", "a", "t", "g", "e", "a", "r">>,
           transmission_type |-> <<"a", "u", "t", "o", "m", "a", "t", "i", "c">>,
           extraction_enhanced |-> TRUE]),
      Assigned(base_item,
          [variant |-> base_name \o <<" ", "1", ".", "0", " ", "B", "e", "n", "z", "i", "n", " ", "7", "2", " ", "H", "k", " ", "M", "a", "n", "u", "a", "l">>,
           engine_specification |-> <<"1", ".", "0", " ", "b", "e", "n", "z", "i", "n", " ", "7", "2", " ", "h", "k", " ", "m", "a", "n", "u", "a", "l">>,
           transmission_type |-> <<"m", "a", "n", "u", "a", "l">>,
           extraction_enhanced |-> TRUE])>>

RECURSIVE AygoPairs(_, _)
AygoPairs(base_variants, k) ==
    IF k > Len(base_variants) THEN <<>>
    ELSE AygoPair(base_variants[k][1], base_variants[k][2]) \o AygoPairs(base_variants, k + 1)

\* lines 46-80
process_aygo_x(items) ==
    IF items = <<>> THEN <<>>
    ELSE Head_n(AygoPairs(BaseVariantsLoop(items, 1, <<>>), 1), 4)

\* lines 82-84
process_yaris(items) == Head_n(items, 4)

\* lines 97-102
standard_variants ==
    <<<<"A", "c", "t", "i", "v", "e", " ", "1", ".", "5", " ", "H", "y", "b", "r", "i", "d", " ", "1", "1", "6", " ", "H", "k", " ", "A", "u", "t", "o", "m", "a", "t", "g", "e", "a", "r">>,
      <<"A", "c", "t", "i", "v", "e", " ", "S", "a", "f", "e", "t", "y", " ", "1", ".", "5", " ", "H", "y", "b", "r", "i", "d", " ", "1", "1", "6", " ", "H", "k", " ", "A", "u", "t", "o", "m", "a", "t", "g", "e", "a", "r">>,
      <<"S", "t", "y", "l", "e", " ", "C", "o", "m", "f", "o", "r", "t", " ", "1", ".", "5", " ", "H", "y", "b", "r", "i", "d", " ", "1", "1", "6", " ", "H", "k", " ", "A", "u", "t", "o", "m", "a", "t", "g", "e", "a", "r">>,
      <<"S", "t", "y", "l", "e", " ", "S", "a", "f", "e", "t", "y", " ", "1", ".", "5", " ", "H", "y", "b", "r", "i", "d", " ", "1", "1", "6", " ", "H", "k", " ", "A", "u", "t", "o", "m", "a", "t", "g", "e", "a", "r">>>>

\* lines 113-128: the Elegant and the GR Sport variant
HighPowerVariant(template_item, variant_name) ==
    Assigned(template_item,
        [variant |-> variant_name,
         engine_specification |-> <<"1", ".", "8", " ", "H", "y", "b", "r", "i", "d", " ", "1", "4", "0", " ", "h", "k", " ", "a", "u", "t", "o", "m", "a", "t", "g", "e", "a", "r">>,
         power_hp |-> 140,
         is_high_power_variant |-> TRUE,
         extraction_enhanced |-> TRUE])

\* lines 86-130
process_yaris_cross(items) ==
    IF items = <<>> THEN <<>>
    ELSE Head_n(
           [k \in DOMAIN standard_variants |->
               Assigned(items[1],
                   [variant |-> standard_variants[k],
                    engine_specification |-> <<"1", ".", "5", " ", "H", "y", "b", "r", "i", "d", " ", "1", "1", "6", " ", "h", "k", " ", "a", "u", "t", "o", "m", "a", "t", "g", "e", "a", "r">>,
                    power_hp |-> 116,
                    extraction_enhanced |-> TRUE])]
           \o <<HighPowerVariant(items[1], <<"E", "l", "e", "g", "a", "n", "t", " ", "1", ".", "8", " ", "H", "y", "b", "r", "i", "d", " ", "1", "4", "0", " ", "H", "k", " ", "A", "u", "t", "o", "m", "a", "t", "g", "e", "a", "r">>),
                HighPowerVariant(items[1], <<"G", "R", " ", "S", "p", "o", "r", "t", " ", "1", ".", "8", " ", "H", "y", "b", "r", "i", "d", " ", "1", "4", "0", " ", "H", "k", " ", "A", "u", "t", "o", "m", "a", "t", "g", "e", "a", "r">>)>>,
           6)

\* lines 132-134
process_corolla(items) == Head_n(items, 4)

\* lines 146-221: the seven BZ4X variants, each a copy of the template item
Bz4xVariant(template_item, variant_name, engine, drivetrain, power, battery, price) ==
    Assigned(template_item,
        [variant |-> variant_name,
         engine_specification |-> engine,
         drivetrain_type |-> drivetrain,
         power_hp |-> power,
         battery_capacity_kwh |-> battery,
         monthly_price |-> price,
         extraction_enhanced |-> TRUE])

\* lines 136-223
process_bz4x(items) ==
    IF items = <<>> THEN <<>>
    ELSE <<Bz4xVariant(items[1], <<"A", "c", "t", "i", "v", "e", " ", "5", "7", ".", "7", " ", "k", "W", "h", " ", "1", "6", "7", " ", "h", "k">>, <<"5", "7", ".", "7", " ", "k", "W", "h", ",", " ", "1", "6", "7", " ", "h", "k">>, <<"f", "w", "d">>, 167, FloatOf(<<"5", "7", ".", "7">>), 3999),
           Bz4xVariant(items[1], <<"A", "c", "t", "i", "v", "e", " ", "7", "3", ".", "1", " ", "k", "W", "h", " ", "2", "2", "4", " ", "h", "k">>, <<"7", "3", ".", "1", " ", "k", "W", "h", ",", " ", "2", "2", "4", " ", "h", "k">>, <<"f", "w", "d">>, 224, FloatOf(<<"7", "3", ".", "1">>), 4499),
           Bz4xVariant(items[1], <<"E", "x", "e", "c", "u", "t", "i", "v", "e", " ", "7", "3", ".", "1", " ", "k", "W", "h", " ", "2", "2", "4", " ", "h", "k">>, <<"7", "3", ".", "1", " ", "k", "W", "h", ",", " ", "2", "2", "4", " ", "h", "k">>, <<"f", "w", "d">>, 224, FloatOf(<<"7", "3", ".", "1">>), 4999),
           Bz4xVariant(items[1], <<"E", "x", "e", "c", "u", "t", "i", "v", "e", " ", "P", "a", "n", "o", "r", "a", "m", "a", " ", "7", "3", ".", "1", " ", "k", "W", "h", " ", "2", "2", "4", " ", "h", "k">>, <<"7", "3", ".", "1", " ", "k", "W", "h", ",", " ", "2", "2", "4", " ", "h", "k">>, <<"f", "w", "d">>, 224, FloatOf(<<"7", "3", ".", "1">>), 5399),
           Bz4xVariant(items[1], <<"A", "c", "t", "i", "v", "e", " ", "A", "W", "D", " ", "7", "3", ".", "1", " ", "k", "W", "h", " ", "3", "4", "3", " ", "h", "k">>, <<"7", "3", ".", "1", " ", "k", "W", "h", ",", " ", "3", "4", "3", " ", "h", "k", " ", "A", "W", "D">>, <<"a", "w", "d">>, 343, FloatOf(<<"7", "3", ".", "1">>), 4799),
           Bz4xVariant(items[1], <<"E", "x", "e", "c", "u", "t", "i", "v", "e", " ", "A", "W", "D", " ", "7", "3", ".", "1", " ", "k", "W", "h", " ", "3", "4", "3", " ", "h", "k">>, <<"7", "3", ".", "1", " ", "k", "W", "h", ",", " ", "3", "4", "3", " ", "h", "k", " ", "A", "W", "D">>, <<"a", "w", "d">>, 343, FloatOf(<<"7", "3", ".", "1">>), 5299),
           Bz4xVariant(items[1], <<"E", "x", "e", "c", "u", "t", "i", "v", "e", " ", "P", "a", "n", "o", "r", "a", "m", "a", " ", "A", "W", "D", " ", "7", "3", ".", "1", " ", "k", "W", "h", " ", "3", "4", "3", " ", "h", "k">>, <<"7", "3", ".", "1", " ", "k", "W", "h", ",", " ", "3", "4", "3", " ", "h", "k", " ", "A", "W", "D">>, <<"a", "w", "d">>, 343, FloatOf(<<"7", "3", ".", "1">>), 5699)>>

\* lines 225-227
process_urban_cruiser(items) == Head_n(items, 2)

\* lines 18-44; the items of the inputs below are dicts with string variants, for
\* which no statement of the try block raises
process_to_27_variants(items) ==
    process_aygo_x(VariantsOfModel(items, <<"A", "Y", "G", "O", " ", "X">>))
    \o process_yaris(VariantsOfModel(items, <<"Y", "A", "R", "I", "S">>))
    \o process_yaris_cross(VariantsOfModel(items, <<"Y", "A", "R", "I", "S", " ", "C", "R", "O", "S", "S">>))
    \o process_corolla(VariantsOfModel(items, <<"C", "O", "R", "O", "L", "L", "A", " ", "T", "O", "U", "R", "I", "N", "G", " ", "S", "P", "O", "R", "T", "S">>))
    \o process_bz4x(VariantsOfModel(items, <<"B", "Z", "4", "X">>))
    \o process_urban_cruiser(VariantsOfModel(items, <<"U", "R", "B", "A", "N", " ", "C", "R", "U", "I", "S", "E", "R">>))

(***************************************************************************)
(* Specification SpecVariants: process_to_27_variants applied to a basic   *)
(* extraction result                                                       *)
(***************************************************************************)
BasicItem(model, variant, engine, price) ==
    [model |-> model, variant |-> variant, engine_specification |-> engine, monthly_price |-> price]

\* the basic items of test_27_variant_extractor, by model
BasicItems ==
    <<<<BasicItem(<<"A", "Y", "G", "O", " ", "X">>, <<"A", "c", "t", "i", "v", "e", " ", "1", ".", "0", " ", "B", "e", "n", "z", "i", "n", " ", "7", "2", " ", "H", "k", " ", "A", "u", "t", "o", "m", "a", "t", "g", "e", "a", "r">>, <<"1", ".", "0", " ", "b", "e", "n", "z", "i", "n", " ", "7", "2", " ", "h", "k", " ", "a", "u", "t", "o", "m", "a", "t", "g", "e", "a", "r">>, 2995),
        BasicItem(<<"A", "Y", "G", "O", " ", "X">>, <<"P", "u", "l", "s", "e", " ", "1", ".", "0", " ", "B", "e", "n", "z", "i", "n", " ", "7", "2", " ", "H", "k", " ", "A", "u", "t", "o", "m", "a", "t", "g", "e", "a", "r">>, <<"1", ".", "0", " ", "b", "e", "n", "z", "i", "n", " ", "7", "2", " ", "h", "k", " ", "a", "u", "t", "o", "m", "a", "t", "g", "e", "a", "r">>, 3195)>>,
      <<BasicItem(<<"Y", "A", "R", "I", "S">>, <<"A", "c", "t", "i", "v", "e", " ", "1", ".", "5", " ", "H", "y", "b", "r", "i", "d", " ", "1", "1", "6", " ", "H", "k">>, <<"1", ".", "5", " ", "H", "y", "b", "r", "i", "d", " ", "1", "1", "6", " ", "h", "k">>, 2795),
        BasicItem(<<"Y", "A", "R", "I", "S">>, <<"S", "t", "y", "l", "e", " ", "1", ".", "5", " ", "H", "y", "b", "r", "i", "d", " ", "1", "1", "6", " ", "H", "k">>, <<"1", ".", "5", " ", "H", "y", "b", "r", "i", "d", " ", "1", "1", "6", " ", "h", "k">>, 2995),
        BasicItem(<<"Y", "A", "R", "I", "S">>, <<"S", "t", "y", "l", "e", " ", "C", "o", "m", "f", "o", "r", "t", " ", "1", ".", "5", " ", "H", "y", "b", "r", "i", "d", " ", "1", "1", "6", " ", "H", "k">>, <<"1", ".", "5", " ", "H", "y", "b", "r", "i", "d", " ", "1", "1", "6", " ", "h", "k">>, 3295),
        BasicItem(<<"Y", "A", "R", "I", "S">>, <<"S", "t", "y", "l", "e", " ", "T", "e", "c", "h", "n", "o", "l", "o", "g", "y", " ", "1", ".", "5", " ", "H", "y", "b", "r", "i", "d", " ", "1", "1", "6", " ", "H", "k">>, <<"1", ".", "5", " ", "H", "y", "b", "r", "i", "d", " ", "1", "1", "6", " ", "h", "k">>, 3495)>>,
      <<BasicItem(<<"Y", "A", "R", "I", "S", " ", "C", "R", "O", "S", "S">>, <<"A", "c", "t", "i", "v", "e", " ", "1", ".", "5", " ", "H", "y", "b", "r", "i", "d", " ", "1", "3", "0", " ", "H", "k", " ", "A", "u", "t", "o", "m", "a", "t", "g", "e", "a", "r">>, <<"1", ".", "5", " ", "H", "y", "b", "r", "i", "d", " ", "1", "3", "0", " ", "h", "k", " ", "a", "u", "t", "o", "m", "a", "t", "g", "e", "a", "r">>, 3795),
        BasicItem(<<"Y", "A", "R", "I", "S", " ", "C", "R", "O", "S", "S">>, <<"A", "c", "t", "i", "v", "e", " ", "S", "a", "f", "e", "t", "y", " ", "1", ".", "5", " ", "H", "y", "b", "r", "i", "d", " ", "1", "3", "0", " ", "H", "k", " ", "A", "u", "t", "o", "m", "a", "t", "g", "e", "a", "r">>, <<"1", ".", "5", " ", "H", "y", "b", "r", "i", "d", " ", "1", "3", "0", " ", "h", "k", " ", "a", "u", "t", "o", "m", "a", "t", "g", "e", "a", "r">>, 3995)>>,
      <<BasicItem(<<"C", "O", "R", "O", "L", "L", "A", " ", "T", "O", "U", "R", "I", "N", "G", " ", "S", "P", "O", "R", "T", "S">>, <<"A", "c", "t", "i", "v", "e", " ", "C", "o", "m", "f", "o", "r", "t", " ", "1", ".", "8", " ", "H", "y", "b", "r", "i", "d", " ", "1", "4", "0", " ", "H", "k">>, <<"1", ".", "8", " ", "H", "y", "b", "r", "i", "d", " ", "1", "4", "0", " ", "h", "k">>, 4195),
        BasicItem(<<"C", "O", "R", "O", "L", "L", "A", " ", "T", "O", "U", "R", "I", "N", "G", " ", "S", "P", "O", "R", "T", "S">>, <<"A", "c", "t", "i", "v", "e", " ", "C", "o", "m", "f", "o", "r", "t", " ", "P", "l", "u", "s", " ", "1", ".", "8", " ", "H", "y", "b", "r", "i", "d", " ", "1", "4", "0", " ", "H", "k">>, <<"1", ".", "8", " ", "H", "y", "b", "r", "i", "d", " ", "1", "4", "0", " ", "h", "k">>, 4395),
        BasicItem(<<"C", "O", "R", "O", "L", "L", "A", " ", "T", "O", "U", "R", "I", "N", "G", " ", "S", "P", "O", "R", "T", "S">>, <<"S", "t", "y", "l", "e", " ", "1", ".", "8", " ", "H", "y", "b", "r", "i", "d", " ", "1", "4", "0", " ", "H", "k">>, <<"1", ".", "8", " ", "H", "y", "b", "r", "i", "d", " ", "1", "4", "0", " ", "h", "k">>, 4595),
        BasicItem(<<"C", "O", "R", "O", "L", "L", "A", " ", "T", "O", "U", "R", "I", "N", "G", " ", "S", "P", "O", "R", "T", "S">>, <<"S", "t", "y", "l", "e", " ", "S", "a", "f", "e", "t", "y", " ", "1", ".", "8", " ", "H", "y", "b", "r", "i", "d", " ", "1", "4", "0", " ", "H", "k">>, <<"1", ".", "8", " ", "H", "y", "b", "r", "i", "d", " ", "1", "4", "0", " ", "h", "k">>, 4795)>>,
      <<BasicItem(<<"B", "Z", "4", "X">>, <<"A", "c", "t", "i", "v", "e">>, <<"5", "7", ".", "7", " ", "k", "W", "h", ",", " ", "1", "6", "7", " ", "h", "k">>, 5995),
        BasicItem(<<"B", "Z", "4", "X">>, <<"E", "x", "e", "c", "u", "t", "i", "v", "e">>, <<"7", "3", ".", "1", " ", "k", "W", "h", ",", " ", "2", "2", "4", " ", "h", "k">>, 6495),
        BasicItem(<<"B", "Z", "4", "X">>, <<"E", "x", "e", "c", "u", "t", "i", "v", "e", " ", "P", "a", "n", "o", "r", "a", "m", "a">>, <<"7", "3", ".", "1", " ", "k", "W", "h", ",", " ", "2", "2", "4", " ", "h", "k">>, 6795)>>,
      <<BasicItem(<<"U", "R", "B", "A", "N", " ", "C", "R", "U", "I", "S", "E", "R">>, <<"A", "c", "t", "i", "v", "e", " ", "6", "1", ".", "1", " ", "K", "w", "h", ",", " ", "1", "7", "4", " ", "H", "k">>, <<"6", "1", ".", "1", " ", "k", "W", "h", ",", " ", "1", "7", "4", " ", "h", "k">>, 4995),
        BasicItem(<<"U", "R", "B", "A", "N", " ", "C", "R", "U", "I", "S", "E", "R">>, <<"E", "x", "e", "c", "u", "t", "i", "v", "e", " ", "6", "1", ".", "1", " ", "K", "w", "h", ",", " ", "1", "7", "4", " ", "H", "k">>, <<"6", "1", ".", "1", " ", "k", "W", "h", ",", " ", "1", "7", "4", " ", "h", "k">>, 5295)>>>>

\* how many of a model's basic items a result holds: all of them or the first only
ItemCounts == [m \in DOMAIN BasicItems |-> {1, Len(BasicItems[m])}]

RECURSIVE Flatten(_, _)
Flatten(lists, m) == IF m > Len(lists) THEN <<>> ELSE lists[m] \o Flatten(lists, m + 1)

\* the items numbered as ids, as strings
WithIds(items) == [i \in DOMAIN items |-> ("id" :> (<<"v">> \o StrOfInt(i))) @@ items[i]]

\* basic extraction results that hold items of all six models, with or without ids
BasicResults ==
    {IF ids THEN WithIds(Flatten([m \in DOMAIN BasicItems |-> Head_n(BasicItems[m], n[m])], 1))
            ELSE Flatten([m \in DOMAIN BasicItems |-> Head_n(BasicItems[m], n[m])], 1) :
        n \in {c \in [DOMAIN BasicItems -> 1..4] : \A m \in DOMAIN BasicItems : c[m] \in ItemCounts[m]},
        ids \in BOOLEAN}

InitVariants ==
    /\ fIn \in BasicResults
    /\ fOut = None
    /\ IdIdle
    /\ DedupIdle
    /\ RunIdle
    /\ CacheIdle

ProcessTo27Variants ==
    /\ fOut = None
    /\ fOut' = Some(process_to_27_variants(fIn))
    /\ UNCHANGED <<fIn, idVars, dedupVars, runVars, cacheVars>>

NextVariants == ProcessTo27Variants

SpecVariants == InitVariants /\ [][NextVariants]_vars

CountOfModel(items, model) == Len(VariantsOfModel(items, model))

HasAllSixModels(items) ==
    \A m \in DOMAIN BasicItems : CountOfModel(items, BasicItems[m][1].model) >= 1

\* C25: for a basic extraction result with items of all six models the result
\* has exactly 27 variants, AYGO X 4, YARIS 4, YARIS CROSS 6, COROLLA TOURING
\* SPORTS 4, BZ4X 7 and URBAN CRUISER 2, no two with the same model and variant.
C25_Exactly27Variants ==
    (fOut # None /\ HasAllSixModels(fIn)) =>
        /\ Len(fOut[1]) = 27
        /\ CountOfModel(fOut[1], <<"A", "Y", "G", "O", " ", "X">>) = 4
        /\ CountOfModel(fOut[1], <<"Y", "A", "R", "I", "S">>) = 4
        /\ CountOfModel(fOut[1], <<"Y", "A", "R", "I", "S", " ", "C", "R", "O", "S", "S">>) = 6
        /\ CountOfModel(fOut[1], <<"C", "O", "R", "O", "L", "L", "A", " ", "T", "O", "U", "R", "I", "N", "G", " ", "S", "P", "O", "R", "T", "S">>) = 4
        /\ CountOfModel(fOut[1], <<"B", "Z", "4", "X">>) = 7
        /\ CountOfModel(fOut[1], <<"U", "R", "B", "A", "N", " ", "C", "R", "U", "I", "S", "E", "R">>) = 2
        /\ \A i \in DOMAIN fOut[1], j \in DOMAIN fOut[1] :
               i # j => <<fOut[1][i].model, fOut[1][i].variant>> # <<fOut[1][j].model, fOut[1][j].variant>>

DistinctIds(items) ==
    /\ \A i \in DOMAIN items : Has(items[i], "id")
    /\ \A i \in DOMAIN items, j \in DOMAIN items : i # j => items[i].id # items[j].id

\* C30: when every input item has an id and the input ids are pairwise
\* distinct, the output ids are pairwise distinct.
C30_IdsStayDistinct ==
    (fOut # None /\ DistinctIds(fIn)) => DistinctIds(fOut[1])

(***************************************************************************)
(* ToyotaVariantExtractor.extract_aygo_x_variants                          *)
(* (toyota_variant_extraction_fixes_enhanced.py)                           *)
(***************************************************************************)
\* lines 281-299: the copy of the item with the variant renamed for the
\* transmission ("automatic" or "manual") and the metadata added
enhance_aygo_x_variant(item, transmission) ==
    Assigned(item,
        [variant |-> Strip(Replace(Replace(Get(item, "variant", <<>>),
                                           <<" ", "A", "u", "t", "o", "m", "a", "t", "g", "e", "a", "r">>, <<>>), <<" ", "a", "u", "t", "o", "m", "a", "t", "g", "e", "a", "r">>, <<>>))
                     \o (IF transmission = <<"a", "u", "t", "o", "m", "a", "t", "i", "c">> THEN <<" ", "A", "u", "t", "o", "m", "a", "t", "g", "e", "a", "r">> ELSE <<" ", "M", "a", "n", "u", "a", "l">>),
         transmission_type |-> transmission,
         extraction_enhanced |-> TRUE])

\* lines 212-244: the loop over the items; created is aygo_x_variants_created
RECURSIVE AygoVariantsLoop(_, _, _, _)
AygoVariantsLoop(items, i, created, enhanced_items) ==
    IF i > Len(items) THEN enhanced_items
    ELSE IF Get(items[i], "model", None) # <<"A", "Y", "G", "O", " ", "X">>
    THEN AygoVariantsLoop(items, i + 1, created, Append(enhanced_items, items[i]))
    ELSE LET base_variant == Strip(Replace(Get(items[i], "variant", <<>>), <<" ", "A", "u", "t", "o", "m", "a", "t", "g", "e", "a", "r">>, <<>>))
             auto_variant_key == base_variant \o <<"_", "a", "u", "t", "o">>
             manual_variant_key == base_variant \o <<"_", "m", "a", "n", "u", "a", "l">>
             with_auto ==
                 IF auto_variant_key \notin created
                 THEN Append(enhanced_items, enhance_aygo_x_variant(items[i], <<"a", "u", "t", "o", "m", "a", "t", "i", "c">>))
                 ELSE enhanced_items
             with_manual ==
                 IF manual_variant_key \notin created
                 THEN Append(with_auto, enhance_aygo_x_variant(items[i], <<"m", "a", "n", "u", "a", "l">>))
                 ELSE with_auto
         IN  AygoVariantsLoop(items, i + 1,
                 created \cup {auto_variant_key, manual_variant_key}, with_manual)

\* lines 207-246
extract_aygo_x_variants(items) == AygoVariantsLoop(items, 1, {}, <<>>)

(***************************************************************************)
(* Specification SpecAygo: extract_aygo_x_variants applied to a list of    *)
(* records                                                                 *)
(***************************************************************************)
MaxRecords == 3

\* the two AYGO X records of test_toyota_extraction, records of another model
\* and the incomplete records of test_missing_fields
AygoRecords ==
    {BasicItem(<<"A", "Y", "G", "O", " ", "X">>, <<"A", "c", "t", "i", "v", "e">>, <<"1", ".", "0", " ", "b", "e", "n", "z", "i", "n", " ", "7", "2", " ", "h", "k", " ", "a", "u", "t", "o", "m", "a", "t", "g", "e", "a", "r">>, 2699),
     BasicItem(<<"A", "Y", "G", "O", " ", "X">>, <<"P", "u", "l", "s", "e">>, <<"1", ".", "0", " ", "b", "e", "n", "z", "i", "n", " ", "7", "2", " ", "h", "k">>, 2799),
     BasicItem(<<"Y", "A", "R", "I", "S", " ", "C", "R", "O", "S", "S">>, <<"A", "c", "t", "i", "v", "e">>, <<"1", ".", "5", " ", "H", "y", "b", "r", "i", "d", " ", "1", "1", "6", " ", "h", "k", " ", "a", "u", "t", "o", "m", "a", "t", "g", "e", "a", "r">>, 3299),
     [model |-> <<"A", "Y", "G", "O", " ", "X">>],
     [variant |-> <<"A", "c", "t", "i", "v", "e">>],
     [engine_specification |-> <<"1", ".", "0", " ", "b", "e", "n", "z", "i", "n", " ", "7", "2", " ", "h", "k">>]}

RECURSIVE RecordLists(_)
RecordLists(n) ==
    IF n = 0 THEN {<<>>}
    ELSE RecordLists(n - 1)
         \cup {Append(l, r) : l \in {x \in RecordLists(n - 1) : Len(x) = n - 1}, r \in AygoRecords}

InitAygo ==
    /\ fIn \in RecordLists(MaxRecords)
    /\ fOut = None
    /\ IdIdle
    /\ DedupIdle
    /\ RunIdle
    /\ CacheIdle

ExtractAygoXVariants ==
    /\ fOut = None
    /\ fOut' = Some(extract_aygo_x_variants(fIn))
    /\ UNCHANGED <<fIn, idVars, dedupVars, runVars, cacheVars>>

NextAygo == ExtractAygoXVariants

SpecAygo == InitAygo /\ [][NextAygo]_vars

\* C26: the output has one record per input record, in order: for an AYGO X
\* record a record with transmission_type 'automatic' when its engine
\* specification contains 'automatgear' and 'manual' otherwise, for a record of
\* another model the record itself.
C26_OneRecordPerInput ==
    fOut # None =>
        /\ Len(fOut[1]) = Len(fIn)
        /\ \A i \in DOMAIN fIn :
               IF Get(fIn[i], "model", None) = <<"A", "Y", "G", "O", " ", "X">>
               THEN Get(fOut[1][i], "transmission_type", None) =
                        (IF Contains(Lower(Get(fIn[i], "engine_specification", <<>>)), <<"a", "u", "t", "o", "m", "a", "t", "g", "e", "a", "r">>)
                         THEN <<"a", "u", "t", "o", "m", "a", "t", "i", "c">> ELSE <<"m", "a", "n", "u", "a", "l">>)
               ELSE fOut[1][i] = fIn[i]

(***************************************************************************)
(* ToyotaDanishExtractor._extract_bz4x_engine_from_context and the line    *)
(* strategy that calls it                                                  *)
(***************************************************************************)
\* lines 1432 and 1441: the fields of a line that begins with
\* \d+[,.]\d+\s*[Kk][Ww][Hh][,\s]*\s*\d+\s*hk, None for any other line. Each
\* part of the pattern excludes the first character of the next, so the greedy
\* scan is the only way to match. b, e, f and g are the 1-based ends of the
\* battery figure, of the separators after kWh, of the power figure and of the
\* blanks before hk.
HeaderFromHk(line, b, e, f, g) ==
    IF f = e \/ ~OccursAt(line, <<"h", "k">>, g) THEN None
    ELSE Some([battery |-> SubSeq(line, 1, b - 1), power |-> SubSeq(line, e, f - 1),
               after_hk |-> g + 2])

HeaderFromPower(line, b, e) ==
    HeaderFromHk(line, b, e, RunEnd(line, e, DigitSet),
                 RunEnd(line, RunEnd(line, e, DigitSet), SpaceSet))

HeaderFromKwh(line, a, b) ==
    IF b = a + 1 \/ ~OccursAt(Lower(line), <<"k", "w", "h">>, RunEnd(line, b, SpaceSet)) THEN None
    ELSE HeaderFromPower(line, b, RunEnd(line, RunEnd(line, b, SpaceSet) + 3, SpaceSet \cup {","}))

HeaderFromFraction(line, a) ==
    IF a > Len(line) \/ line[a] \notin {",", "."} THEN None
    ELSE HeaderFromKwh(line, a, RunEnd(line, a + 1, DigitSet))

HeaderFields(line) ==
    IF line = <<>> \/ ~IsDigit(line[1]) THEN None
    ELSE HeaderFromFraction(line, RunEnd(line, 1, DigitSet))

\* lines 1432-1449: a line is a section header when the AWD pattern matches it
\* or the pattern with (?!\s*AWD) does, that is, when the common part matches
IsSectionHeader(line) == HeaderFields(line) # None

\* line 1450: a variant line
IsSectionVariant(line) == OccursAt(line, <<"A", "c", "t", "i", "v", "e">>, 1) \/ OccursAt(line, <<"E", "x", "e", "c", "u", "t", "i", "v", "e">>, 1)

\* lines 1424-1453: the sections in page order, each with the variant lines
\* that follow its header up to the next header
RECURSIVE EngineSectionsLoop(_, _, _)
EngineSectionsLoop(lines, i, engine_sections) ==
    IF i > Len(lines) THEN engine_sections
    ELSE LET line == Strip(lines[i])
             n == Len(engine_sections)
         IN  EngineSectionsLoop(lines, i + 1,
                 IF IsSectionHeader(line)
                 THEN Append(engine_sections,
                             [engine_spec |-> line, start_line |-> i - 1, variants |-> <<>>])
                 ELSE IF n > 0 /\ IsSectionVariant(line)
                 THEN [engine_sections EXCEPT ![n].variants = Append(@, line)]
                 ELSE engine_sections)

\* lines 1468-1478: the section text in the standard form; group 3 of the
\* pattern there is AWD in any case after at least one blank (k is where the
\* blanks after hk end)
NormalizedFields(engine_spec, m, k) ==
    Replace(m.battery, <<",">>, <<".">>) \o <<" ", "k", "W", "h", ",", " ">> \o m.power \o <<" ", "h", "k">>
    \o (IF k > m.after_hk /\ OccursAt(Upper(engine_spec), <<"A", "W", "D">>, k)
        THEN <<" ">> \o SubSeq(engine_spec, k, k + 2) ELSE <<>>)

NormalizedEngine(engine_spec) ==
    NormalizedFields(engine_spec, HeaderFields(engine_spec)[1],
                     RunEnd(engine_spec, HeaderFields(engine_spec)[1].after_hk, SpaceSet))

\* line 1463: the variant is found in a line of the section
VariantInSection(section, variant) ==
    \E k \in DOMAIN section.variants :
        \/ Contains(section.variants[k], Strip(variant))
        \/ OccursAt(Strip(section.variants[k]), Strip(variant), 1)

\* lines 1461-1489: the first section, in page order, that holds the variant
FirstSectionOf(engine_sections, variant) ==
    {s \in DOMAIN engine_sections :
        /\ VariantInSection(engine_sections[s], variant)
        /\ \A t \in 1..(s - 1) : ~VariantInSection(engine_sections[t], variant)}

EngineOfSections(engine_sections, found) ==
    IF found = {} THEN None
    ELSE Some(NormalizedEngine(engine_sections[CHOOSE s \in found : TRUE].engine_spec))

SectionsEngine(engine_sections, variant) ==
    EngineOfSections(engine_sections, FirstSectionOf(engine_sections, variant))

\* lines 1419-1492; the method is given the page text and the variant name,
\* not the line that asks
extract_bz4x_engine_from_context(lines, variant) ==
    SectionsEngine(EngineSectionsLoop(lines, 1, <<>>), variant)

\* lines 1387-1417 for the model BZ4X and a page with text
extract_engine_from_page_context(lines, variant) ==
    extract_bz4x_engine_from_context(lines, variant)

\* lines 440-446 and 492-500: the engine text of the page context, or else the
\* text built from the figures of the line
WithRealEngine(parsed, real_engine_spec) ==
    IF real_engine_spec = None THEN parsed
    ELSE Some([parsed[1] EXCEPT !.engine_specification = real_engine_spec])

WithContextEngine(lines, parsed) ==
    IF parsed = None THEN None
    ELSE IF parsed[1].engine_specification = None THEN parsed
    ELSE WithRealEngine(parsed, extract_engine_from_page_context(lines, parsed[1].variant))

\* lines 384-422 for one line of a BZ4X page
ParseLineInContext(lines, line_idx, fallback) ==
    WithContextEngine(lines, parse_pricing_line(lines[line_idx + 1], fallback))

\* lines 375-380: the items of the lines that parsed, in page order
ItemsOfKept(parsed_lines, kept, page_num) ==
    [k \in 1..Cardinality(kept) |->
        LineItem(parsed_lines[NthOf(kept, k)][1], <<"B", "Z", "4", "X">>, page_num, NthOf(kept, k) - 1)]

ItemsOfParsed(parsed_lines, page_num) ==
    ItemsOfKept(parsed_lines, {i \in DOMAIN parsed_lines : parsed_lines[i] # None}, page_num)

\* lines 356-382 on a BZ4X page: every line that is not blank and holds a price
\* is parsed
extract_bz4x_variants_from_text(lines, page_num, fallback) ==
    ItemsOfParsed(
        [i \in DOMAIN lines |->
            IF Strip(lines[i]) # <<>> /\ contains_price_pattern(Strip(lines[i]))
            THEN ParseLineInContext(lines, i - 1, fallback)
            ELSE None],
        page_num)

(***************************************************************************)
(* Specification SpecContext: the line strategy on a BZ4X page made of     *)
(* engine-section headers and pricing lines                                *)
(***************************************************************************)
MaxContextLines == 4

SectionHeaders == {<<"5", "7", ",", "7", " ", "K", "W", "h", " ", "1", "6", "7", " ", "h", "k">>, <<"7", "3", ",", "1", " ", "k", "W", "h", ",", " ", "3", "4", "3", " ", "h", "k", " ", "A", "W", "D">>}

ContextLabels == {<<"A", "c", "t", "i", "v", "e">>, <<"E", "x", "e", "c", "u", "t", "i", "v", "e">>, <<"E", "x", "e", "c", "u", "t", "i", "v", "e", " ", "P", "a", "n", "o", "r", "a", "m", "a">>}

ElectricTail == <<"3", ".", "9", "9", "9", " ", "9", ".", "9", "9", "9", " ", "5", "7", ".", "9", "8", "7", " ", "1", "5", "3", ".", "9", "6", "3", " ", "1", "3", "6", " ", "4", "4", "4", " ", "5", "7", ",", "7", "/", "5", "4", " ", "1", "5", ".", "0", "0", "0", " ", "4", "2", "0">>

ContextLines == SectionHeaders \cup {label \o <<" ">> \o ElectricTail : label \in ContextLabels}

RECURSIVE ContextPages(_)
ContextPages(n) ==
    IF n = 0 THEN {<<>>}
    ELSE ContextPages(n - 1)
         \cup {Append(p, l) : p \in {x \in ContextPages(n - 1) : Len(x) = n - 1}, l \in ContextLines}

InitContext ==
    /\ fIn \in {[lines |-> p, fallback |-> <<"5", "7", ".", "7", " ", "k", "W", "h", ",", " ", "1", "6", "7", " ", "h", "k">>] : p \in ContextPages(MaxContextLines)}
    /\ fOut = None
    /\ IdIdle
    /\ DedupIdle
    /\ RunIdle
    /\ CacheIdle

\* _extract_variants_from_text(text, "BZ4X", 1) with self.current_page_text = text
ExtractVariantsFromText ==
    /\ fOut = None
    /\ fOut' = Some(extract_bz4x_variants_from_text(fIn.lines, 1, fIn.fallback))
    /\ UNCHANGED <<fIn, idVars, dedupVars, runVars, cacheVars>>

NextContext == ExtractVariantsFromText

SpecContext == InitContext /\ [][NextContext]_vars

\* the header lines above the line of index line_idx (from 0)
HeadersAbove(lines, line_idx) == {i \in 1..line_idx : IsSectionHeader(Strip(lines[i]))}

\* C28: every item of a pricing line that has a section header above it carries
\* the engine specification of the nearest such header, also when its trim
\* label stands under more than one section.
C28_EngineOfOwnSection ==
    fOut # None =>
        \A k \in DOMAIN fOut[1] :
            \A h \in HeadersAbove(fIn.lines, fOut[1][k].source.line) :
                (\A j \in HeadersAbove(fIn.lines, fOut[1][k].source.line) : j <= h)
                    => fOut[1][k].engine_specification = NormalizedEngine(Strip(fIn.lines[h]))
====
